---- MODULE Spec2Model ----
(***************************************************************************)
(* Booking admission, serial allocation, booking status lifecycle,         *)
(* availability rules, slots, queue notification hub and rate limiter of   *)
(* the clinic scheduling API server.                                       *)
(*                                                                         *)
(* The relational store is modelled by what the handlers rely on: a table  *)
(* of committed booking rows, uncommitted rows of open transactions, row   *)
(* locks taken by SELECT ... FOR UPDATE on the rows the statement reads,   *)
(* and the unique constraint unique_serial.  Every await of a handler is a *)
(* step boundary; statements between two awaits form one action.  The      *)
(* locals of a handler are dropped when it returns.  The response and the  *)
(* events a step produces are its outputs: they are visible in the state   *)
(* the step leads to and are replaced by the outputs of the next step.     *)
(***************************************************************************)
EXTENDS Integers, Sequences, FiniteSets, TLC

\* ---------------------------------------------------------------- bounds
\* POST and PATCH requests that may be in flight at the same time.
NumProcs == 2
\* subscriber handles (streams opened) in one behaviour.
NumSubs == 2
\* POST and PATCH requests issued in one behaviour.
MaxRequests == 3
\* DELETE requests issued in one behaviour.
MaxDeletes == 2

Procs == 1..NumProcs
SubIds == 1..NumSubs
Doctors == {"D1"}
Dates == {"2025-06-02"}
Clinics == {"C1"}
Keys == Doctors \X Dates

\* ------------------------------------------------------------ data model
Absent == "undefined"
Null == "null"
NoRow == [id |-> 0]
NoRequest == [op |-> "none"]
NoSub == [transport |-> "none"]

BookingStatus == {"pending", "confirmed", "cancelled", "completed", "no_show"}
Terminal == {"cancelled", "completed", "no_show"}
CancelNotes == {"", "patient request"}

VARIABLES
  booking,      \* committed rows of table booking
  txRow,        \* txRow[p]: row inserted by p's open transaction, not committed
  locks,        \* locks[p]: ids of the rows p's transaction holds FOR UPDATE
  nextId,       \* next fresh booking id (stands for gen_random_uuid())
  pc,           \* pc[p]: position of the request in slot p in its handler
  req,          \* req[p]: route parameters of the request in slot p
  body,         \* body[p]: validatedBody of the request in slot p
  dailySerial,  \* dailySerial[p]: the value allocateSerial returned
  attempts,     \* attempts[p]: runs of the allocate-and-insert callback
  row,          \* row[p]: the row a statement returned to the handler
  response,     \* the response the latest step sent, NoResponse if none
  published,    \* the events the latest step handed to publishQueueEvent
  requests,     \* number of POST and PATCH requests so far
  deletes,      \* number of DELETE requests so far
  maxAssigned,  \* history: highest serial ever committed per (doctorId, serialDate)
  lowDeleted,   \* history: keys of which a booking below the maximum was deleted
  firstCalls,   \* history: creates per key that began before any commit on the key
  firstSerials, \* history: the serials those creates committed
  doctor,       \* ids of the rows of table doctor
  doctorClinic, \* rows of table doctor_clinic: <<doctorId, clinicId>>
  availabilityRules, \* rows of table availability_rules
  subscribers,  \* the hub's registry: channel key -> set of subscriber handles
  sub,          \* sub[s]: the Subscriber object of handle s and its stream
  frames,       \* frames[s]: the SSE frames enqueued on the stream of handle s
  ticks,        \* heartbeat intervals of time that have passed
  store,        \* bookingLimiter's Map: rate-limit key -> { count, resetAt }
  clock         \* Date.now() as the rate limiter reads it, in milliseconds

bookingVars == <<booking, txRow, locks, nextId, pc, req, body, dailySerial,
                 attempts, row, response, published, requests, deletes,
                 maxAssigned, lowDeleted, firstCalls, firstSerials>>
\* the tables the admission checks of createBooking read
storeVars == <<doctor, doctorClinic, availabilityRules>>
\* the queue notification hub
hubVars == <<subscribers, sub, frames, ticks>>

\* the in-memory rate limiter of booking creation
limiterVars == <<store, clock>>

vars == <<bookingVars, storeVars, hubVars, limiterVars>>

\* ------------------------------------------------------------ validators

\* fault: the schema built with .passthrough() keeps the keys it does not
\* declare
createBookingSchemaPassthrough(raw) == raw

\* createBookingSchema: a zod object keeps the declared keys only, so a
\* bookingStatus sent by the client does not reach the handler.
createBookingSchema(raw) ==
  [clinicId |-> raw.clinicId, serialDate |-> raw.serialDate,
   scheduledAt |-> raw.scheduledAt]

\* updateBookingSchema: bookingStatus and cancelNote are optional.
updateBookingSchema(raw) ==
  [bookingStatus |-> raw.bookingStatus, cancelNote |-> raw.cancelNote]

\* -------------------------------------------------------- booking.service

DayRows(doctorId, serialDate) ==
  {b \in booking : b.doctorId = doctorId /\ b.serialDate = serialDate}

Max(S) == CHOOSE x \in S : \A y \in S : y <= x

\* SELECT COALESCE(MAX(daily_serial), 0) + 1 over the committed rows
NextSerial(rows) ==
  IF rows = {} THEN 1 ELSE Max({b.dailySerial : b \in rows}) + 1

\* FOR UPDATE of request p waits while a row it reads is locked by another
\* open transaction.  A day without rows has nothing to lock.
LockWait(p, rows) ==
  \E q \in Procs \ {p} : \E b \in rows : b.id \in locks[q]

RowLocked(id) == \E q \in Procs : id \in locks[q]

\* fault: a table that lets a no_show booking be confirmed again
ALLOWED_TRANSITIONS_Reopen ==
  [s \in BookingStatus |->
     CASE s = "pending" -> {"confirmed", "cancelled"}
       [] s = "confirmed" -> {"completed", "cancelled", "no_show"}
       [] s = "no_show" -> {"confirmed"}
       [] OTHER -> {}]

ALLOWED_TRANSITIONS ==
  [s \in BookingStatus |->
     CASE s = "pending" -> {"confirmed", "cancelled"}
       [] s = "confirmed" -> {"completed", "cancelled", "no_show"}
       [] OTHER -> {}]

\* TRUE when the transition passes, FALSE when INVALID_TRANSITION is thrown
assertValidTransition(current, next) ==
  next \in ALLOWED_TRANSITIONS[current]

\* -------------------------------------------------------------- the store

\* unique_serial: UNIQUE (doctor_id, daily_serial, serial_date)
SameSerial(a, b) ==
  /\ a.doctorId = b.doctorId
  /\ a.dailySerial = b.dailySerial
  /\ a.serialDate = b.serialDate

\* fault: a table created without the constraint unique_serial
UniqueViolationNoConstraint(r) == FALSE

UniqueViolation(r) == \E b \in booking : SameSerial(b, r)

\* an insert waits while another open transaction holds an uncommitted row
\* with the same unique key
InsertWait(p, r) ==
  \E q \in Procs \ {p} : txRow[q] # NoRow /\ SameSerial(txRow[q], r)

\* the stored row with this id, NoRow when there is none
RowById(id) ==
  IF \E b \in booking : b.id = id
  THEN CHOOSE b \in booking : b.id = id
  ELSE NoRow

\* ------------------------------------------------- events and responses
QueueEvent(type, r, serial, status) ==
  [type |-> type, bookingId |-> r.id, doctorId |-> r.doctorId,
   date |-> r.serialDate, serial |-> serial, status |-> status]

NoResponse == [status |-> 0]
\* a response, with the request it answers
Response(status, code, to) == [status |-> status, code |-> code, to |-> to]

\* ----------------------------------------------------- availability rules
\* a time of day "HH:MM" as the pair of its two numbers
Time(h, m) == <<h, m>>

\* const [h, m] = t.split(":").map(Number); return h * 60 + m
timeToMinutes(t) == t[1] * 60 + t[2]

\* the days from Sunday 2025-06-01 on, as "YYYY-MM-DD"
Calendar ==
  <<"2025-06-01", "2025-06-02", "2025-06-03", "2025-06-04", "2025-06-05",
    "2025-06-06", "2025-06-07", "2025-06-08", "2025-06-09">>

\* new Date(serialDate).getDay(): 0 = Sunday ... 6 = Saturday
getDay(serialDate) ==
  ((CHOOSE k \in DOMAIN Calendar : Calendar[k] = serialDate) - 1) % 7

\* a row of availability_rules
AvailabilityRule(id, doctorId, b) ==
  [id |-> id, doctorId |-> doctorId, clinicId |-> b.clinicId,
   dayOfWeek |-> b.dayOfWeek, startTime |-> b.startTime,
   endTime |-> b.endTime, breaks |-> b.breaks, isActive |-> b.isActive]

\* the rows the rule lookup of assertWithinAvailability selects from
MatchingRules(doctorId, clinicId, serialDate) ==
  {r \in availabilityRules :
     /\ r.doctorId = doctorId
     /\ r.clinicId = clinicId
     /\ r.isActive
     /\ r.dayOfWeek = getDay(serialDate)}

NoError == <<0, "">>

\* new Date(scheduledAt).getUTCHours() and .getUTCMinutes()
getUTCHours(scheduledAt) ==
  CASE scheduledAt = "2025-06-02T08:00:00Z" -> 8
    [] scheduledAt = "2025-06-02T09:00:00Z" -> 9
    [] scheduledAt = "2025-06-02T10:00:00Z" -> 10
    [] scheduledAt = "2025-06-02T12:00:00Z" -> 12

getUTCMinutes(scheduledAt) ==
  CASE scheduledAt \in {"2025-06-02T08:00:00Z", "2025-06-02T09:00:00Z",
                        "2025-06-02T10:00:00Z", "2025-06-02T12:00:00Z"} -> 0

\* breaks.some((b) => requestedMinutes >= b.start && requestedMinutes < b.end)
duringBreak(breaks, requestedMinutes) ==
  \E i \in 1..Len(breaks) :
    requestedMinutes >= breaks[i].start /\ requestedMinutes < breaks[i].end

\* the checks of assertWithinAvailability on the rule it has selected
WindowError(rule, scheduledAt) ==
  IF scheduledAt = Absent THEN NoError
  ELSE LET requestedMinutes ==
             getUTCHours(scheduledAt) * 60 + getUTCMinutes(scheduledAt)
           start == timeToMinutes(rule.startTime)
           end == timeToMinutes(rule.endTime)
       IN IF requestedMinutes < start \/ requestedMinutes >= end
          THEN <<409, "OUTSIDE_HOURS">>
          ELSE IF duringBreak(rule.breaks, requestedMinutes)
          THEN <<409, "DURING_BREAK">>
          ELSE NoError

\* assertWithinAvailability: the errors it can throw. The lookup is
\* .limit(1) without ORDER BY: of several matching rows the store returns
\* any one.
assertWithinAvailability(doctorId, clinicId, serialDate, scheduledAt) ==
  IF MatchingRules(doctorId, clinicId, serialDate) = {}
  THEN {<<409, "NO_AVAILABILITY">>}
  ELSE {WindowError(rule, scheduledAt) :
          rule \in MatchingRules(doctorId, clinicId, serialDate)}

\* fault: the clinic assignment is checked before the doctor is looked up
AdmissionErrorsClinicFirst(doctorId, b) ==
  IF <<doctorId, b.clinicId>> \notin doctorClinic
  THEN {<<409, "DOCTOR_NOT_IN_CLINIC">>}
  ELSE IF doctorId \notin doctor THEN {<<404, Absent>>}
  ELSE assertWithinAvailability(doctorId, b.clinicId, b.serialDate,
                                b.scheduledAt)

\* getDoctorOrThrow, assertDoctorInClinic, assertWithinAvailability in the
\* order bookingController.create awaits them
AdmissionErrors(doctorId, b) ==
  IF doctorId \notin doctor THEN {<<404, Absent>>}
  ELSE IF <<doctorId, b.clinicId>> \notin doctorClinic
  THEN {<<409, "DOCTOR_NOT_IN_CLINIC">>}
  ELSE assertWithinAvailability(doctorId, b.clinicId, b.serialDate,
                                b.scheduledAt)

\* the rule on which the requests of CreateBegin are admitted
MondayRule ==
  AvailabilityRule(1, "D1",
                   [clinicId |-> "C1", dayOfWeek |-> 1,
                    startTime |-> Time(9, 0), endTime |-> Time(12, 0),
                    breaks |-> <<>>, isActive |-> TRUE])

\* ------------------------------------------------------------------- Init
\* doctor D1 works at clinic C1
StoreInit ==
  /\ doctor = {"D1"}
  /\ doctorClinic = {<<"D1", "C1">>}

\* no subscriber, no time passed
HubInit ==
  /\ subscribers = [k \in {} |-> {}]
  /\ sub = [s \in SubIds |-> NoSub]
  /\ frames = [s \in SubIds |-> <<>>]
  /\ ticks = 0

\* no bucket in the limiter's Map, time 0
LimiterInit ==
  /\ store = [k \in {} |-> 0]
  /\ clock = 0

Init ==
  /\ StoreInit
  /\ availabilityRules = {MondayRule}
  /\ HubInit
  /\ LimiterInit
  /\ booking = {}
  /\ txRow = [p \in Procs |-> NoRow]
  /\ locks = [p \in Procs |-> {}]
  /\ nextId = 1
  /\ pc = [p \in Procs |-> "idle"]
  /\ req = [p \in Procs |-> NoRequest]
  /\ body = [p \in Procs |-> NoRequest]
  /\ dailySerial = [p \in Procs |-> 0]
  /\ attempts = [p \in Procs |-> 0]
  /\ row = [p \in Procs |-> NoRow]
  /\ response = NoResponse
  /\ published = <<>>
  /\ requests = 0
  /\ deletes = 0
  /\ maxAssigned = [k \in Keys |-> 0]
  /\ lowDeleted = {}
  /\ firstCalls = [k \in Keys |-> 0]
  /\ firstSerials = [k \in Keys |-> {}]

\* a request is accepted into the lowest free slot
Arrives(p) ==
  /\ requests < MaxRequests
  /\ pc[p] = "idle"
  /\ \A q \in Procs : q < p => pc[q] # "idle"

\* outputs of a step: the events published and the response sent
Out(events, r) ==
  /\ published' = events
  /\ response' = r

\* the handler of slot p returns: its locals are dropped
Return(p) ==
  /\ pc' = [pc EXCEPT ![p] = "idle"]
  /\ req' = [req EXCEPT ![p] = NoRequest]
  /\ body' = [body EXCEPT ![p] = NoRequest]
  /\ dailySerial' = [dailySerial EXCEPT ![p] = 0]
  /\ attempts' = [attempts EXCEPT ![p] = 0]
  /\ row' = [row EXCEPT ![p] = NoRow]

\* ------------------------------------------- POST /doctors/:id/bookings
\* bookingController.create from the validated body to the start of the
\* transaction, once the admission preconditions have passed
CreateStart(p, doctorId, raw) ==
  LET first == maxAssigned[<<doctorId, raw.serialDate>>] = 0 IN
  /\ Arrives(p)
  /\ req' = [req EXCEPT ![p] =
               [op |-> "create", doctorId |-> doctorId, first |-> first,
                afterLowDelete |-> <<doctorId, raw.serialDate>> \in lowDeleted]]
  /\ body' = [body EXCEPT ![p] = createBookingSchema(raw)]
  /\ firstCalls' = IF first
                   THEN [firstCalls EXCEPT ![<<doctorId, raw.serialDate>>] = @ + 1]
                   ELSE firstCalls
  /\ pc' = [pc EXCEPT ![p] = "allocate"]
  /\ requests' = requests + 1
  /\ Out(<<>>, NoResponse)
  /\ UNCHANGED <<booking, txRow, locks, nextId, dailySerial, attempts, row,
                 deletes, maxAssigned, lowDeleted, firstSerials>>
  /\ UNCHANGED <<storeVars, hubVars, limiterVars>>

\* bookingController.create for a request that passes the admission
\* preconditions, with or without a bookingStatus key in the body sent
CreateBegin(p) ==
  \E doctorId \in Doctors, clinicId \in Clinics, serialDate \in Dates,
     sent \in {Absent, "confirmed"} :
    CreateStart(p, doctorId,
                [clinicId |-> clinicId, serialDate |-> serialDate,
                 scheduledAt |-> Absent, bookingStatus |-> sent])

\* doctor ids and clinic ids a request may name: D2 is no doctor, and D1
\* is not assigned to clinic C2
AdmissionDoctors == {"D1", "D2"}
AdmissionClinics == {"C1", "C2"}

\* scheduledAt of a request: none, or an ISO datetime
ScheduledAts ==
  {Absent, "2025-06-02T08:00:00Z", "2025-06-02T09:00:00Z",
   "2025-06-02T10:00:00Z", "2025-06-02T12:00:00Z"}

\* bookingController.create for any request: the admission preconditions,
\* and the start of the transaction when they pass
CreateAdmission(p) ==
  \E doctorId \in AdmissionDoctors, clinicId \in AdmissionClinics,
     serialDate \in Dates, scheduledAt \in ScheduledAts :
    LET raw == [clinicId |-> clinicId, serialDate |-> serialDate,
                scheduledAt |-> scheduledAt, bookingStatus |-> Absent]
        b == createBookingSchema(raw)
    IN \E e \in AdmissionErrors(doctorId, b) :
         IF e = NoError
         THEN CreateStart(p, doctorId, raw)
         ELSE /\ Arrives(p)
              /\ requests' = requests + 1
              /\ Out(<<>>, Response(e[1], e[2],
                                    [op |-> "create", doctorId |-> doctorId] @@ b))
              /\ UNCHANGED <<booking, txRow, locks, nextId, pc, req, body,
                             dailySerial, attempts, row, deletes, maxAssigned,
                             lowDeleted, firstCalls, firstSerials>>
              /\ UNCHANGED <<storeVars, hubVars, limiterVars>>

\* allocateSerial(tx, doctorId, serialDate)
AllocateSerial(p) ==
  /\ pc[p] = "allocate"
  /\ LET rows == DayRows(req[p].doctorId, body[p].serialDate) IN
       /\ ~LockWait(p, rows)
       /\ locks' = [locks EXCEPT ![p] = {b.id : b \in rows}]
       /\ dailySerial' = [dailySerial EXCEPT ![p] = NextSerial(rows)]
  /\ attempts' = [attempts EXCEPT ![p] = @ + 1]
  /\ pc' = [pc EXCEPT ![p] = "insert"]
  /\ Out(<<>>, NoResponse)
  /\ UNCHANGED <<booking, txRow, nextId, req, body, row, requests, deletes,
                 maxAssigned, lowDeleted, firstCalls, firstSerials>>
  /\ UNCHANGED <<storeVars, hubVars, limiterVars>>

\* the row tx.insert(booking).values({...body, doctorId, dailySerial}) writes;
\* booking_status and cancel_note take their column defaults unless the
\* validated body carries them
NewRow(p) ==
  [id |-> nextId, doctorId |-> req[p].doctorId,
   clinicId |-> body[p].clinicId,
   serialDate |-> body[p].serialDate, dailySerial |-> dailySerial[p],
   bookingStatus |-> IF "bookingStatus" \in DOMAIN body[p]
                        /\ body[p].bookingStatus # Absent
                     THEN body[p].bookingStatus ELSE "pending",
   cancelNote |-> Null]

\* fault: the event is published from inside the transaction callback, right
\* after the insert and before the commit
InsertRowPublishes(p) ==
  /\ pc[p] = "insert"
  /\ ~InsertWait(p, NewRow(p))
  /\ ~UniqueViolation(NewRow(p))
  /\ txRow' = [txRow EXCEPT ![p] = NewRow(p)]
  /\ row' = [row EXCEPT ![p] = NewRow(p)]
  /\ nextId' = nextId + 1
  /\ pc' = [pc EXCEPT ![p] = "commit"]
  /\ Out(<<QueueEvent("booking_created", NewRow(p), dailySerial[p], "pending")>>,
         NoResponse)
  /\ UNCHANGED <<booking, locks, req, body, dailySerial, attempts, requests,
                 deletes, maxAssigned, lowDeleted, firstCalls, firstSerials>>
  /\ UNCHANGED <<storeVars, hubVars, limiterVars>>

\* tx.insert(booking) ... returning(): the row is written
InsertRow(p) ==
  /\ pc[p] = "insert"
  /\ ~InsertWait(p, NewRow(p))
  /\ ~UniqueViolation(NewRow(p))
  /\ txRow' = [txRow EXCEPT ![p] = NewRow(p)]
  /\ row' = [row EXCEPT ![p] = NewRow(p)]
  /\ nextId' = nextId + 1
  /\ pc' = [pc EXCEPT ![p] = "commit"]
  /\ Out(<<>>, NoResponse)
  /\ UNCHANGED <<booking, locks, req, body, dailySerial, attempts, requests,
                 deletes, maxAssigned, lowDeleted, firstCalls, firstSerials>>
  /\ UNCHANGED <<storeVars, hubVars, limiterVars>>

\* tx.insert(booking) fails on unique_serial: the transaction rolls back, the
\* error leaves bookingController.create and the error handler answers 500
InsertConflict(p) ==
  /\ pc[p] = "insert"
  /\ ~InsertWait(p, NewRow(p))
  /\ UniqueViolation(NewRow(p))
  /\ locks' = [locks EXCEPT ![p] = {}]
  /\ Return(p)
  /\ Out(<<>>, Response(500, "INTERNAL_ERROR",
                        [op |-> "create", attempts |-> attempts[p]]))
  /\ UNCHANGED <<booking, txRow, nextId, requests, deletes, maxAssigned,
                 lowDeleted, firstCalls, firstSerials>>
  /\ UNCHANGED <<storeVars, hubVars, limiterVars>>

\* db.transaction resolves: COMMIT
Commit(p) ==
  /\ pc[p] = "commit"
  /\ booking' = booking \cup {txRow[p]}
  /\ LET k == <<txRow[p].doctorId, txRow[p].serialDate>> IN
       /\ maxAssigned' = [maxAssigned EXCEPT ![k] =
                            IF txRow[p].dailySerial > @
                            THEN txRow[p].dailySerial ELSE @]
       /\ firstSerials' = IF req[p].first
                          THEN [firstSerials EXCEPT ![k] =
                                  @ \cup {txRow[p].dailySerial}]
                          ELSE firstSerials
  /\ txRow' = [txRow EXCEPT ![p] = NoRow]
  /\ locks' = [locks EXCEPT ![p] = {}]
  /\ pc' = [pc EXCEPT ![p] = "publish"]
  /\ Out(<<>>, NoResponse)
  /\ UNCHANGED <<nextId, req, body, dailySerial, attempts, row, requests,
                 deletes, lowDeleted, firstCalls>>
  /\ UNCHANGED <<storeVars, hubVars, limiterVars>>

\* publishQueueEvent({type: "booking_created", ...}); return created(c, row)
CreatePublish(p) ==
  /\ pc[p] = "publish"
  /\ Return(p)
  /\ Out(<<QueueEvent("booking_created", row[p], row[p].dailySerial,
                      row[p].bookingStatus)>>,
         Response(201, "", [op |-> "create", attempts |-> attempts[p]]))
  /\ UNCHANGED <<booking, txRow, locks, nextId, requests, deletes,
                 maxAssigned, lowDeleted, firstCalls, firstSerials>>
  /\ UNCHANGED <<storeVars, hubVars, limiterVars>>

\* --------------------------------------------------- PATCH /bookings/:id
\* fault: body.cancelNote === undefined, which lets the empty string pass
NoteMissingUndefinedOnly(note) == note = Absent

\* !body.cancelNote: undefined and the empty string are both falsy
NoteMissing(note) == note = Absent \/ note = ""

\* the checks of bookingController.update before its write:
\* getBookingOrThrow, assertValidTransition, then the cancelNote rule
UpdateReject(r, b) ==
  IF b.bookingStatus # Absent /\ RowById(r.id) = NoRow
    THEN Response(404, Absent, r @@ b)
  ELSE IF b.bookingStatus # Absent
          /\ ~assertValidTransition(r.current, b.bookingStatus)
    THEN Response(409, "INVALID_TRANSITION", r @@ b)
  ELSE IF b.bookingStatus = "cancelled" /\ NoteMissing(b.cancelNote)
    THEN Response(400, "CANCEL_NOTE_REQUIRED", r @@ b)
  ELSE NoResponse

\* const current = await getBookingOrThrow(id): read only when the patch
\* carries a bookingStatus
Current(id, b) ==
  IF b.bookingStatus # Absent /\ RowById(id) # NoRow
  THEN RowById(id).bookingStatus ELSE Absent

\* ids a PATCH or DELETE names: the id of every stored booking, and 0 for an
\* id no booking has
TargetIds == {0} \cup {b.id : b \in booking}

\* request bodies of PATCH: a status alone or no key at all, a cancellation
\* with an empty or a non-empty note, and a note alone
UpdateBodies ==
  {[bookingStatus |-> s, cancelNote |-> Absent] : s \in BookingStatus \cup {Absent}}
  \cup {[bookingStatus |-> s, cancelNote |-> n] :
          s \in {"cancelled", Absent}, n \in CancelNotes}

\* fault: an update that writes the note of the patch before its checks, so
\* that a rejected call has changed the booking
UpdateCheckWritesFirst(p) ==
  /\ Arrives(p)
  /\ requests' = requests + 1
  /\ \E id \in TargetIds, raw \in UpdateBodies :
       LET b == updateBookingSchema(raw)
           r == [op |-> "update", id |-> id, current |-> Current(id, b)]
           old == RowById(id)
       IN IF UpdateReject(r, b) = NoResponse
          THEN /\ req' = [req EXCEPT ![p] = r]
               /\ body' = [body EXCEPT ![p] = b]
               /\ pc' = [pc EXCEPT ![p] = "write"]
               /\ Out(<<>>, NoResponse)
               /\ UNCHANGED booking
          ELSE /\ Out(<<>>, UpdateReject(r, b))
               /\ booking' = IF old = NoRow \/ RowLocked(id) THEN booking
                             ELSE (booking \ {old})
                                    \cup {[old EXCEPT !.cancelNote = ""]}
               /\ UNCHANGED <<pc, req, body>>
  /\ UNCHANGED <<dailySerial, attempts, row>>
  /\ UNCHANGED <<txRow, locks, nextId, deletes, maxAssigned,
                 lowDeleted, firstCalls, firstSerials>>
  /\ UNCHANGED <<storeVars, hubVars, limiterVars>>

\* bookingController.update up to db.update
UpdateCheck(p) ==
  /\ Arrives(p)
  /\ requests' = requests + 1
  /\ \E id \in TargetIds, raw \in UpdateBodies :
       LET b == updateBookingSchema(raw)
           r == [op |-> "update", id |-> id, current |-> Current(id, b)]
       IN IF UpdateReject(r, b) = NoResponse
          THEN /\ req' = [req EXCEPT ![p] = r]
               /\ body' = [body EXCEPT ![p] = b]
               /\ pc' = [pc EXCEPT ![p] = "write"]
               /\ Out(<<>>, NoResponse)
          ELSE /\ Out(<<>>, UpdateReject(r, b))
               /\ UNCHANGED <<pc, req, body>>
  /\ UNCHANGED <<dailySerial, attempts, row>>
  /\ UNCHANGED <<booking, txRow, locks, nextId, deletes, maxAssigned,
                 lowDeleted, firstCalls, firstSerials>>
  /\ UNCHANGED <<storeVars, hubVars, limiterVars>>

\* .set({...body, updatedAt}): the keys the patch carries are overwritten
Patched(old, b) ==
  [old EXCEPT
     !.bookingStatus = IF b.bookingStatus = Absent THEN @ ELSE b.bookingStatus,
     !.cancelNote = IF b.cancelNote = Absent THEN @ ELSE b.cancelNote]

\* fault: every update is announced as booking_updated
eventTypeAlwaysUpdated(written) == "booking_updated"

\* type of the event bookingController.update publishes for the written row
eventType(written) ==
  IF written.bookingStatus = "cancelled"
  THEN "booking_cancelled" ELSE "booking_updated"

\* db.update(booking).set(...).where(id).returning(), then publishQueueEvent
UpdateWrite(p) ==
  /\ pc[p] = "write"
  /\ LET old == RowById(req[p].id)
         new == Patched(old, body[p])
     IN IF old = NoRow
        THEN /\ Out(<<>>, Response(404, Absent, req[p] @@ body[p]))
             /\ UNCHANGED booking
        ELSE /\ ~RowLocked(old.id)
             /\ booking' = (booking \ {old}) \cup {new}
             /\ Out(<<QueueEvent(eventType(new), new, new.dailySerial,
                                 new.bookingStatus)>>,
                    Response(200, "", req[p] @@ body[p]))
  /\ Return(p)
  /\ UNCHANGED <<txRow, locks, nextId, requests, deletes, maxAssigned,
                 lowDeleted, firstCalls, firstSerials>>
  /\ UNCHANGED <<storeVars, hubVars, limiterVars>>

\* fault: a delete that applies the state machine and refuses to remove a
\* booking in a terminal status
DeleteBookingChecked(id) ==
  /\ deletes < MaxDeletes
  /\ deletes' = deletes + 1
  /\ LET old == RowById(id) IN
       IF old = NoRow
       THEN /\ Out(<<>>, Response(404, Absent, [op |-> "delete", id |-> id]))
            /\ UNCHANGED booking
       ELSE IF old.bookingStatus \in Terminal
       THEN /\ Out(<<>>, Response(409, "INVALID_TRANSITION",
                                  [op |-> "delete", id |-> id]))
            /\ UNCHANGED booking
       ELSE /\ ~RowLocked(id)
            /\ booking' = booking \ {old}
            /\ Out(<<QueueEvent("booking_cancelled", old, Absent, Absent)>>,
                   Response(204, "", [op |-> "delete", id |-> id]))
  /\ UNCHANGED <<txRow, locks, nextId, pc, req, body, dailySerial, attempts,
                 row, requests, maxAssigned, lowDeleted, firstCalls,
                 firstSerials>>
  /\ UNCHANGED <<storeVars, hubVars, limiterVars>>

\* fault: a delete that closes the gap by renumbering the later bookings of
\* the day
DeleteBookingRenumbers(id) ==
  /\ deletes < MaxDeletes
  /\ deletes' = deletes + 1
  /\ LET old == RowById(id) IN
       IF old = NoRow
       THEN /\ Out(<<>>, Response(404, Absent, [op |-> "delete", id |-> id]))
            /\ UNCHANGED <<booking, lowDeleted>>
       ELSE /\ ~RowLocked(id)
            /\ booking' =
                 {IF SameSerial(b, [old EXCEPT !.dailySerial = b.dailySerial])
                     /\ b.dailySerial > old.dailySerial
                  THEN [b EXCEPT !.dailySerial = @ - 1] ELSE b :
                    b \in booking \ {old}}
            /\ Out(<<QueueEvent("booking_cancelled", old, Absent, Absent)>>,
                   Response(204, "", [op |-> "delete", id |-> id]))
            /\ lowDeleted' =
                 IF \E b \in DayRows(old.doctorId, old.serialDate) :
                      b.dailySerial > old.dailySerial
                 THEN lowDeleted \cup {<<old.doctorId, old.serialDate>>}
                 ELSE lowDeleted
  /\ UNCHANGED <<txRow, locks, nextId, pc, req, body, dailySerial, attempts,
                 row, requests, maxAssigned, firstCalls, firstSerials>>
  /\ UNCHANGED <<storeVars, hubVars, limiterVars>>

\* -------------------------------------------------- DELETE /bookings/:id
\* bookingController.delete: one DELETE ... RETURNING, then the publish
DeleteBooking(id) ==
  /\ deletes < MaxDeletes
  /\ deletes' = deletes + 1
  /\ LET old == RowById(id) IN
       IF old = NoRow
       THEN /\ Out(<<>>, Response(404, Absent, [op |-> "delete", id |-> id]))
            /\ UNCHANGED <<booking, lowDeleted>>
       ELSE /\ ~RowLocked(id)
            /\ booking' = booking \ {old}
            /\ Out(<<QueueEvent("booking_cancelled", old, Absent, Absent)>>,
                   Response(204, "", [op |-> "delete", id |-> id]))
            /\ lowDeleted' =
                 IF \E b \in DayRows(old.doctorId, old.serialDate) :
                      b.dailySerial > old.dailySerial
                 THEN lowDeleted \cup {<<old.doctorId, old.serialDate>>}
                 ELSE lowDeleted
  /\ UNCHANGED <<txRow, locks, nextId, pc, req, body, dailySerial, attempts,
                 row, requests, maxAssigned, firstCalls, firstSerials>>
  /\ UNCHANGED <<storeVars, hubVars, limiterVars>>

\* ------------------------------------ /doctors/:id/availability (rules)
\* bodies of POST: a weekly rule for clinic C1 on Monday or Tuesday, morning
\* or afternoon, without breaks or with one break before the morning window
\* and one inside it
RuleBodies ==
  {[clinicId |-> "C1", dayOfWeek |-> d, startTime |-> w[1], endTime |-> w[2],
    breaks |-> br, isActive |-> TRUE] :
     d \in {1, 2},
     w \in {<<Time(9, 0), Time(12, 0)>>, <<Time(12, 0), Time(15, 0)>>},
     br \in {<<>>, <<[start |-> 480, end |-> 510], [start |-> 600, end |-> 630]>>}}

\* the select of availabilityController.create: an active rule of the same
\* doctor, clinic and day of week
overlapping(doctorId, b) ==
  {r \in availabilityRules :
     /\ r.doctorId = doctorId
     /\ r.clinicId = b.clinicId
     /\ r.isActive
     /\ r.dayOfWeek = b.dayOfWeek}

\* availabilityController.create up to its insert
RuleCreateCheck(p) ==
  /\ Arrives(p)
  /\ requests' = requests + 1
  /\ \E doctorId \in AdmissionDoctors, b \in RuleBodies :
       LET r == [op |-> "ruleCreate", doctorId |-> doctorId] IN
       IF doctorId \notin doctor
       THEN /\ Out(<<>>, Response(404, Absent, r @@ b))
            /\ UNCHANGED <<pc, req, body>>
       ELSE IF overlapping(doctorId, b) # {}
       THEN /\ Out(<<>>, Response(409, Absent, r @@ b))
            /\ UNCHANGED <<pc, req, body>>
       ELSE /\ req' = [req EXCEPT ![p] = r]
            /\ body' = [body EXCEPT ![p] = b]
            /\ pc' = [pc EXCEPT ![p] = "ruleInsert"]
            /\ Out(<<>>, NoResponse)
  /\ UNCHANGED <<booking, txRow, locks, nextId, dailySerial, attempts, row,
                 deletes, maxAssigned, lowDeleted, firstCalls, firstSerials>>
  /\ UNCHANGED <<storeVars, hubVars, limiterVars>>

\* db.insert(availabilityRules).values({...body, doctorId}).returning()
RuleCreateInsert(p) ==
  /\ pc[p] = "ruleInsert"
  /\ availabilityRules' = availabilityRules \cup
       {AvailabilityRule(Cardinality(availabilityRules) + 1, req[p].doctorId,
                         body[p])}
  /\ Out(<<>>, Response(201, "", req[p] @@ body[p]))
  /\ Return(p)
  /\ UNCHANGED <<booking, txRow, locks, nextId, requests, deletes, maxAssigned,
                 lowDeleted, firstCalls, firstSerials>>
  /\ UNCHANGED <<doctor, doctorClinic, hubVars, limiterVars>>

\* the rule of this doctor with this id, as a set
RuleById(ruleId, doctorId) ==
  {r \in availabilityRules : r.id = ruleId /\ r.doctorId = doctorId}

\* ids a PATCH or DELETE of a rule names: every stored rule, and 0 for none
RuleIds == {0} \cup {r.id : r \in availabilityRules}

\* bodies of PATCH: the keys not carried are left alone by .set(body)
RulePatches == {[isActive |-> TRUE], [dayOfWeek |-> 1]}

\* .set(body) on a stored rule
RulePatched(r, b) ==
  [r EXCEPT
     !.isActive = IF "isActive" \in DOMAIN b THEN b.isActive ELSE @,
     !.dayOfWeek = IF "dayOfWeek" \in DOMAIN b THEN b.dayOfWeek ELSE @]

\* availabilityController.update: one UPDATE ... RETURNING
RuleUpdate(ruleId) ==
  /\ requests < MaxRequests
  /\ requests' = requests + 1
  /\ \E doctorId \in AdmissionDoctors, b \in RulePatches :
       LET to == [op |-> "ruleUpdate", id |-> ruleId, doctorId |-> doctorId] @@ b
       IN IF RuleById(ruleId, doctorId) = {}
          THEN /\ Out(<<>>, Response(404, Absent, to))
               /\ UNCHANGED availabilityRules
          ELSE /\ availabilityRules' =
                    {IF r \in RuleById(ruleId, doctorId)
                     THEN RulePatched(r, b)
                     ELSE r : r \in availabilityRules}
               /\ Out(<<>>, Response(200, "", to))
  /\ UNCHANGED <<booking, txRow, locks, nextId, pc, req, body, dailySerial,
                 attempts, row, deletes, maxAssigned, lowDeleted, firstCalls,
                 firstSerials>>
  /\ UNCHANGED <<doctor, doctorClinic, hubVars, limiterVars>>

\* a delete that removes the row
RuleDeleteHard(ruleId) ==
  /\ requests < MaxRequests
  /\ requests' = requests + 1
  /\ \E doctorId \in AdmissionDoctors :
       LET to == [op |-> "ruleDelete", id |-> ruleId, doctorId |-> doctorId]
       IN IF RuleById(ruleId, doctorId) = {}
          THEN /\ Out(<<>>, Response(404, Absent, to))
               /\ UNCHANGED availabilityRules
          ELSE /\ availabilityRules' =
                    availabilityRules \ RuleById(ruleId, doctorId)
               /\ Out(<<>>, Response(204, "", to))
  /\ UNCHANGED <<booking, txRow, locks, nextId, pc, req, body, dailySerial,
                 attempts, row, deletes, maxAssigned, lowDeleted, firstCalls,
                 firstSerials>>
  /\ UNCHANGED <<doctor, doctorClinic, hubVars, limiterVars>>

\* availabilityController.delete: UPDATE ... SET is_active = false
RuleDelete(ruleId) ==
  /\ requests < MaxRequests
  /\ requests' = requests + 1
  /\ \E doctorId \in AdmissionDoctors :
       LET to == [op |-> "ruleDelete", id |-> ruleId, doctorId |-> doctorId]
       IN IF RuleById(ruleId, doctorId) = {}
          THEN /\ Out(<<>>, Response(404, Absent, to))
               /\ UNCHANGED availabilityRules
          ELSE /\ availabilityRules' =
                    {IF r \in RuleById(ruleId, doctorId)
                     THEN [r EXCEPT !.isActive = FALSE]
                     ELSE r : r \in availabilityRules}
               /\ Out(<<>>, Response(204, "", to))
  /\ UNCHANGED <<booking, txRow, locks, nextId, pc, req, body, dailySerial,
                 attempts, row, deletes, maxAssigned, lowDeleted, firstCalls,
                 firstSerials>>
  /\ UNCHANGED <<doctor, doctorClinic, hubVars, limiterVars>>

\* ------------------------------------------------------------------- Next
Next ==
  \/ \E p \in Procs : CreateBegin(p)
  \/ \E p \in Procs : AllocateSerial(p)
  \/ \E p \in Procs : InsertRow(p)
  \/ \E p \in Procs : InsertConflict(p)
  \/ \E p \in Procs : Commit(p)
  \/ \E p \in Procs : CreatePublish(p)
  \/ \E p \in Procs : UpdateCheck(p)
  \/ \E p \in Procs : UpdateWrite(p)
  \/ \E id \in TargetIds : DeleteBooking(id)

Spec == Init /\ [][Next]_vars

TypeOK ==
  /\ \A b \in booking : b.bookingStatus \in BookingStatus
  /\ nextId \in 1..(MaxRequests + 1)

\* ------------------------------------------- the status lifecycle alone
\* a booking that createBooking and earlier updates left in status s
StoredBooking(s) ==
  [id |-> 1, doctorId |-> "D1", clinicId |-> "C1",
   serialDate |-> "2025-06-02", dailySerial |-> 1, bookingStatus |-> s,
   cancelNote |-> IF s = "cancelled" THEN "patient request" ELSE Null]

\* one stored booking in any status, no request in flight
InitStatus ==
  /\ StoreInit
  /\ availabilityRules = {MondayRule}
  /\ HubInit
  /\ LimiterInit
  /\ \E s \in BookingStatus : booking = {StoredBooking(s)}
  /\ txRow = [p \in Procs |-> NoRow]
  /\ locks = [p \in Procs |-> {}]
  /\ nextId = 2
  /\ pc = [p \in Procs |-> "idle"]
  /\ req = [p \in Procs |-> NoRequest]
  /\ body = [p \in Procs |-> NoRequest]
  /\ dailySerial = [p \in Procs |-> 0]
  /\ attempts = [p \in Procs |-> 0]
  /\ row = [p \in Procs |-> NoRow]
  /\ response = NoResponse
  /\ published = <<>>
  /\ requests = 0
  /\ deletes = 0
  /\ maxAssigned = [k \in Keys |-> IF k = <<"D1", "2025-06-02">> THEN 1 ELSE 0]
  /\ lowDeleted = {}
  /\ firstCalls = [k \in Keys |-> IF k = <<"D1", "2025-06-02">> THEN 1 ELSE 0]
  /\ firstSerials = [k \in Keys |-> IF k = <<"D1", "2025-06-02">> THEN {1} ELSE {}]

NextStatus ==
  \/ \E p \in Procs : UpdateCheck(p)
  \/ \E p \in Procs : UpdateWrite(p)

SpecStatus == InitStatus /\ [][NextStatus]_vars

\* ------------------------------------- admission with the rules it reads
\* no booking, no rule yet
InitAdmission ==
  /\ StoreInit
  /\ availabilityRules = {}
  /\ HubInit
  /\ LimiterInit
  /\ booking = {}
  /\ txRow = [p \in Procs |-> NoRow]
  /\ locks = [p \in Procs |-> {}]
  /\ nextId = 1
  /\ pc = [p \in Procs |-> "idle"]
  /\ req = [p \in Procs |-> NoRequest]
  /\ body = [p \in Procs |-> NoRequest]
  /\ dailySerial = [p \in Procs |-> 0]
  /\ attempts = [p \in Procs |-> 0]
  /\ row = [p \in Procs |-> NoRow]
  /\ response = NoResponse
  /\ published = <<>>
  /\ requests = 0
  /\ deletes = 0
  /\ maxAssigned = [k \in Keys |-> 0]
  /\ lowDeleted = {}
  /\ firstCalls = [k \in Keys |-> 0]
  /\ firstSerials = [k \in Keys |-> {}]

NextAdmission ==
  \/ \E p \in Procs : CreateAdmission(p)
  \/ \E p \in Procs : AllocateSerial(p)
  \/ \E p \in Procs : InsertRow(p)
  \/ \E p \in Procs : InsertConflict(p)
  \/ \E p \in Procs : Commit(p)
  \/ \E p \in Procs : CreatePublish(p)
  \/ \E p \in Procs : RuleCreateCheck(p)
  \/ \E p \in Procs : RuleCreateInsert(p)
  \/ \E ruleId \in RuleIds : RuleUpdate(ruleId)
  \/ \E ruleId \in RuleIds : RuleDelete(ruleId)

SpecAdmission == InitAdmission /\ [][NextAdmission]_vars

\* ------------------------------------------------------------------ slots
\* Math.floor(m / 60) and m % 60, each padded to two digits: "HH:MM"
minutesToTime(m) == Time(m \div 60, m % 60)

\* isDuringBreak testing the end of the slot instead of its start
isDuringBreakAtEnd(minute, breaks) ==
  \E i \in 1..Len(breaks) : minute > breaks[i].start /\ minute <= breaks[i].end

\* breaks.some((b) => minute >= b.start && minute < b.end)
isDuringBreak(minute, breaks) ==
  \E i \in 1..Len(breaks) : minute >= breaks[i].start /\ minute < breaks[i].end

\* the row the rule lookup of getSlotsForDate returns: .limit(1) without
\* ORDER BY gives any one of the matching rows, and no row when none matches
resolveRule(doctorId, clinicId, date) ==
  IF MatchingRules(doctorId, clinicId, date) = {}
  THEN {NoRow}
  ELSE MatchingRules(doctorId, clinicId, date)

\* the dailySerial values of the bookings of the doctor, clinic and date
bookedSerials(doctorId, clinicId, date) ==
  {b.dailySerial : b \in {r \in booking : /\ r.doctorId = doctorId
                                           /\ r.clinicId = clinicId
                                           /\ r.serialDate = date}}

\* a slot marked available when its serial is booked
TimeSlotInverted(cursor, slotDurationMinutes, booked, serial) ==
  [start |-> minutesToTime(cursor),
   end |-> minutesToTime(cursor + slotDurationMinutes),
   available |-> serial \in booked, serial |-> serial]

\* the slot the loop pushes
TimeSlot(cursor, slotDurationMinutes, booked, serial) ==
  [start |-> minutesToTime(cursor),
   end |-> minutesToTime(cursor + slotDurationMinutes),
   available |-> serial \notin booked, serial |-> serial]

\* the loop of getSlotsForDate from cursor on, with the slots pushed so far
RECURSIVE slotLoop(_, _, _, _, _, _, _)
slotLoop(cursor, end, slotDurationMinutes, breaks, booked, serial, slots) ==
  IF cursor + slotDurationMinutes <= end
  THEN IF isDuringBreak(cursor, breaks)
       THEN slotLoop(cursor + slotDurationMinutes, end, slotDurationMinutes,
                     breaks, booked, serial, slots)
       ELSE slotLoop(cursor + slotDurationMinutes, end, slotDurationMinutes,
                     breaks, booked, serial + 1,
                     Append(slots, TimeSlot(cursor, slotDurationMinutes,
                                            booked, serial)))
  ELSE slots

\* getSlotsForDate numbering the slots from 0
getSlotsForDateFromZero(rule, doctorId, clinicId, date, slotDurationMinutes) ==
  IF rule = NoRow THEN <<>>
  ELSE slotLoop(timeToMinutes(rule.startTime), timeToMinutes(rule.endTime),
                slotDurationMinutes, rule.breaks,
                bookedSerials(doctorId, clinicId, date), 0, <<>>)

\* getSlotsForDate with the loop condition cursor < end, which also emits a
\* last slot that ends after the window
getSlotsForDateToEnd(rule, doctorId, clinicId, date, slotDurationMinutes) ==
  IF rule = NoRow THEN <<>>
  ELSE slotLoop(timeToMinutes(rule.startTime),
                timeToMinutes(rule.endTime) + slotDurationMinutes - 1,
                slotDurationMinutes, rule.breaks,
                bookedSerials(doctorId, clinicId, date), 1, <<>>)

\* getSlotsForDate once its lookup has returned rule
getSlotsForDate(rule, doctorId, clinicId, date, slotDurationMinutes) ==
  IF rule = NoRow THEN <<>>
  ELSE slotLoop(timeToMinutes(rule.startTime), timeToMinutes(rule.endTime),
                slotDurationMinutes, rule.breaks,
                bookedSerials(doctorId, clinicId, date), 1, <<>>)

\* the dates slots are requested for, and the slot durations
SlotDates == {"2025-06-02", "2025-06-03", "2025-06-04"}
SlotDurations == {15, 20, 60}
\* the largest maxDays requested
MaxDays == 3

\* GET /doctors/:id/slots: the answer carries the slots, and the rule the
\* lookup returned.  The handlers of the slot routes only read, so they do
\* not affect each other and are taken one at a time.
GetSlots ==
  /\ \A p \in Procs : pc[p] = "idle"
  /\ \E doctorId \in Doctors, clinicId \in AdmissionClinics,
        date \in SlotDates, slotDuration \in SlotDurations :
       \E rule \in resolveRule(doctorId, clinicId, date) :
         Out(<<>>,
             [slots |-> getSlotsForDate(rule, doctorId, clinicId, date,
                                        slotDuration),
              rule |-> rule]
             @@ Response(200, Absent,
                         [op |-> "slots", doctorId |-> doctorId,
                          clinicId |-> clinicId, date |-> date,
                          slotDuration |-> slotDuration]))
  /\ UNCHANGED <<booking, txRow, locks, nextId, pc, req, body, dailySerial,
                 attempts, row, requests, deletes, maxAssigned, lowDeleted,
                 firstCalls, firstSerials, storeVars, hubVars, limiterVars>>

\* d.setDate(d.getDate() + i); d.toISOString().split("T")[0]
addDays(fromDate, i) ==
  Calendar[(CHOOSE k \in DOMAIN Calendar : Calendar[k] = fromDate) + i]

\* GET /doctors/:id/slots/next: the request is parsed
NextAvailableBegin(p) ==
  /\ \A q \in Procs : pc[q] = "idle"
  /\ \A q \in Procs : q < p => pc[q] # "idle"
  /\ \E doctorId \in Doctors, clinicId \in AdmissionClinics,
        fromDate \in SlotDates, maxDays \in 1..MaxDays :
       /\ req' = [req EXCEPT ![p] =
                    [op |-> "next", doctorId |-> doctorId,
                     clinicId |-> clinicId, fromDate |-> fromDate,
                     maxDays |-> maxDays]]
       /\ body' = [body EXCEPT ![p] = [i |-> 0]]
  /\ pc' = [pc EXCEPT ![p] = "nextDate"]
  /\ Out(<<>>, NoResponse)
  /\ UNCHANGED <<booking, txRow, locks, nextId, dailySerial, attempts, row,
                 requests, deletes, maxAssigned, lowDeleted, firstCalls, firstSerials,
                 storeVars, hubVars, limiterVars>>

\* the answer of getNextAvailable after examined iterations
NextAvailableResponse(p, date, examined) ==
  [nextAvailableDate |-> date, examined |-> examined]
  @@ Response(200, Absent, req[p])

\* a loop that goes on to the next date after it has found one
NextAvailableStepLast(p) ==
  /\ pc[p] = "nextDate"
  /\ LET i == body[p].i
         dateStr == addDays(req[p].fromDate, i)
     IN \E rule \in resolveRule(req[p].doctorId, req[p].clinicId, dateStr) :
          IF i + 1 < req[p].maxDays
          THEN /\ body' = [body EXCEPT ![p] = [i |-> i + 1]]
               /\ Out(<<>>, NoResponse)
               /\ UNCHANGED <<pc, req, dailySerial, attempts, row>>
          ELSE /\ Out(<<>>, NextAvailableResponse(
                        p,
                        IF \E k \in DOMAIN getSlotsForDate(
                                 rule, req[p].doctorId, req[p].clinicId,
                                 dateStr, 15) :
                             getSlotsForDate(rule, req[p].doctorId,
                                             req[p].clinicId, dateStr,
                                             15)[k].available
                        THEN dateStr ELSE Null, i + 1))
               /\ Return(p)
  /\ UNCHANGED <<booking, txRow, locks, nextId, requests, deletes,
                 maxAssigned, lowDeleted, firstCalls, firstSerials,
                 storeVars, hubVars, limiterVars>>

\* one iteration of the loop of getNextAvailableDate: the slots of date
\* fromDate + i are computed; the date is returned when one is available,
\* null when this was the last of the maxDays dates
NextAvailableStep(p) ==
  /\ pc[p] = "nextDate"
  /\ LET i == body[p].i
         dateStr == addDays(req[p].fromDate, i)
     IN \E rule \in resolveRule(req[p].doctorId, req[p].clinicId, dateStr) :
          LET slots == getSlotsForDate(rule, req[p].doctorId,
                                       req[p].clinicId, dateStr, 15)
          IN IF \E k \in DOMAIN slots : slots[k].available
             THEN /\ Out(<<>>, NextAvailableResponse(p, dateStr, i + 1))
                  /\ Return(p)
             ELSE IF i + 1 < req[p].maxDays
             THEN /\ body' = [body EXCEPT ![p] = [i |-> i + 1]]
                  /\ Out(<<>>, NoResponse)
                  /\ UNCHANGED <<pc, req, dailySerial, attempts, row>>
             ELSE /\ Out(<<>>, NextAvailableResponse(p, Null, i + 1))
                  /\ Return(p)
  /\ UNCHANGED <<booking, txRow, locks, nextId, requests, deletes,
                 maxAssigned, lowDeleted, firstCalls, firstSerials,
                 storeVars, hubVars, limiterVars>>

\* the rules the slot requests are answered from: the Monday rule, a Monday
\* rule of one hour with a break in its second half, a Tuesday rule with room
\* for one slot of 15 minutes, a Wednesday rule with two overlapping breaks,
\* and a deactivated Monday rule
SlotRules ==
  {MondayRule,
   AvailabilityRule(2, "D1",
                    [clinicId |-> "C1", dayOfWeek |-> 1,
                     startTime |-> Time(9, 0), endTime |-> Time(10, 0),
                     breaks |-> <<[start |-> 570, end |-> 600]>>,
                     isActive |-> TRUE]),
   AvailabilityRule(3, "D1",
                    [clinicId |-> "C1", dayOfWeek |-> 2,
                     startTime |-> Time(9, 0), endTime |-> Time(9, 20),
                     breaks |-> <<>>, isActive |-> TRUE]),
   AvailabilityRule(4, "D1",
                    [clinicId |-> "C1", dayOfWeek |-> 3,
                     startTime |-> Time(10, 0), endTime |-> Time(11, 0),
                     breaks |-> <<[start |-> 600, end |-> 620],
                                  [start |-> 615, end |-> 630]>>,
                     isActive |-> TRUE]),
   AvailabilityRule(5, "D1",
                    [clinicId |-> "C1", dayOfWeek |-> 1,
                     startTime |-> Time(8, 0), endTime |-> Time(9, 0),
                     breaks |-> <<>>, isActive |-> FALSE])}

\* a stored booking of doctor D1
SlotBooking(id, clinicId, serialDate, serial, status) ==
  [id |-> id, doctorId |-> "D1", clinicId |-> clinicId,
   serialDate |-> serialDate, dailySerial |-> serial,
   bookingStatus |-> status,
   cancelNote |-> IF status = "cancelled" THEN "patient request" ELSE Null]

\* the bookings the slot requests are answered from: serials 1 and 2 of the
\* Monday at clinic C1, serial 3 of the Monday at clinic C2, serial 1 of the
\* Tuesday
SlotBookings ==
  {SlotBooking(1, "C1", "2025-06-02", 1, "pending"),
   SlotBooking(2, "C1", "2025-06-02", 2, "cancelled"),
   SlotBooking(3, "C2", "2025-06-02", 3, "confirmed"),
   SlotBooking(4, "C1", "2025-06-03", 1, "completed")}

\* any of the rules and any of the bookings stored, no request in flight
InitSlots ==
  /\ doctor = {"D1"}
  /\ doctorClinic = {<<"D1", "C1">>, <<"D1", "C2">>}
  /\ availabilityRules \in SUBSET SlotRules
  /\ HubInit
  /\ LimiterInit
  /\ booking \in SUBSET SlotBookings
  /\ txRow = [p \in Procs |-> NoRow]
  /\ locks = [p \in Procs |-> {}]
  /\ nextId = 5
  /\ pc = [p \in Procs |-> "idle"]
  /\ req = [p \in Procs |-> NoRequest]
  /\ body = [p \in Procs |-> NoRequest]
  /\ dailySerial = [p \in Procs |-> 0]
  /\ attempts = [p \in Procs |-> 0]
  /\ row = [p \in Procs |-> NoRow]
  /\ response = NoResponse
  /\ published = <<>>
  /\ requests = 0
  /\ deletes = 0
  /\ maxAssigned = [k \in Keys |-> 0]
  /\ lowDeleted = {}
  /\ firstCalls = [k \in Keys |-> 0]
  /\ firstSerials = [k \in Keys |-> {}]

NextSlots ==
  \/ GetSlots
  \/ \E p \in Procs : NextAvailableBegin(p)
  \/ \E p \in Procs : NextAvailableStep(p)

SpecSlots == InitSlots /\ [][NextSlots]_vars

\* -------------------------------------- bookings created against the slots
\* the rules of doctor D1 for Monday: at clinic C1 09:00-10:00 with the
\* break 09:30-10:00, at clinic C2 09:00-10:00 without break
CapacityRules ==
  {AvailabilityRule(2, "D1",
                    [clinicId |-> "C1", dayOfWeek |-> 1,
                     startTime |-> Time(9, 0), endTime |-> Time(10, 0),
                     breaks |-> <<[start |-> 570, end |-> 600]>>,
                     isActive |-> TRUE]),
   AvailabilityRule(6, "D1",
                    [clinicId |-> "C2", dayOfWeek |-> 1,
                     startTime |-> Time(9, 0), endTime |-> Time(10, 0),
                     breaks |-> <<>>, isActive |-> TRUE])}

\* doctor D1 works at both clinics, one rule per clinic, no booking yet
InitCapacity ==
  /\ doctor = {"D1"}
  /\ doctorClinic = {<<"D1", "C1">>, <<"D1", "C2">>}
  /\ availabilityRules = CapacityRules
  /\ HubInit
  /\ LimiterInit
  /\ booking = {}
  /\ txRow = [p \in Procs |-> NoRow]
  /\ locks = [p \in Procs |-> {}]
  /\ nextId = 1
  /\ pc = [p \in Procs |-> "idle"]
  /\ req = [p \in Procs |-> NoRequest]
  /\ body = [p \in Procs |-> NoRequest]
  /\ dailySerial = [p \in Procs |-> 0]
  /\ attempts = [p \in Procs |-> 0]
  /\ row = [p \in Procs |-> NoRow]
  /\ response = NoResponse
  /\ published = <<>>
  /\ requests = 0
  /\ deletes = 0
  /\ maxAssigned = [k \in Keys |-> 0]
  /\ lowDeleted = {}
  /\ firstCalls = [k \in Keys |-> 0]
  /\ firstSerials = [k \in Keys |-> {}]

\* creates with their admission checks, and slot queries between them
NextCapacity ==
  \/ \E p \in Procs : CreateAdmission(p)
  \/ \E p \in Procs : AllocateSerial(p)
  \/ \E p \in Procs : InsertRow(p)
  \/ \E p \in Procs : InsertConflict(p)
  \/ \E p \in Procs : Commit(p)
  \/ \E p \in Procs : CreatePublish(p)
  \/ GetSlots

SpecCapacity == InitCapacity /\ [][NextCapacity]_vars

\* ------------------------------------------------- queue notification hub
\* identifiers are strings, written as the sequence of their characters so
\* that String.prototype.startsWith can be computed
UserId(n) == <<"u", n>>

\* str.startsWith(prefix)
StartsWith(str, prefix) ==
  /\ Len(prefix) <= Len(str)
  /\ SubSeq(str, 1, Len(prefix)) = prefix

\* an absent patientId: undefined is falsy, as the empty string is
NoPatientId == <<>>

\* the authenticated users that open streams: one of the staff and two
\* patients (role member)
AuthUsers ==
  {[id |-> <<"s", "1">>, role |-> "staff"],
   [id |-> UserId("1"), role |-> "member"],
   [id |-> UserId("2"), role |-> "member"]}

\* the dates streams are opened for
HubDates == {"2025-06-02", "2025-06-03"}

\* the bookings whose events are published: two of patient u1 on the first
\* date, the id of the second beginning with the characters of the id of
\* user u2, and one of patient u2 on the second date
HubBookings ==
  {[id |-> <<"b", "1">>, doctorId |-> "D1", serialDate |-> "2025-06-02",
    patientId |-> UserId("1"), dailySerial |-> 1, bookingStatus |-> "pending"],
   [id |-> <<"u", "2", "7">>, doctorId |-> "D1", serialDate |-> "2025-06-02",
    patientId |-> UserId("1"), dailySerial |-> 2, bookingStatus |-> "pending"],
   [id |-> <<"b", "3">>, doctorId |-> "D1", serialDate |-> "2025-06-03",
    patientId |-> UserId("2"), dailySerial |-> 1, bookingStatus |-> "pending"]}

\* the events the booking handlers hand to publishQueueEvent for them
HubEvents ==
  {QueueEvent("booking_created", b, b.dailySerial, b.bookingStatus) :
     b \in HubBookings}

\* a channel key made of the doctor alone
channelKeyDoctorOnly(doctorId, date) == <<doctorId, ":">>

\* `${doctorId}:${date}`
channelKey(doctorId, date) == <<doctorId, ":", date>>

\* the frame sendEvent enqueues: event name and data
Frame(eventName, data) == [event |-> eventName, data |-> data]

\* a controller that puts the frame in front of the queued ones
enqueueFirst(queue, frame) == <<frame>> \o queue

\* controller.enqueue(frame) on an open stream
enqueue(queue, frame) == Append(queue, frame)

\* the default period of startHeartbeat, in milliseconds
intervalMs == 25000
\* heartbeat intervals that pass in one behaviour
MaxTicks == 1
\* frames enqueued on one stream in one behaviour
MaxFrames == 3

\* the time passed since the start, in milliseconds
now == ticks * intervalMs

\* the patient filter GET /sse/queue/:doctorId derives from the user
patientIdFilter(user) ==
  IF user.role \in {"staff", "doctor", "admin", "owner"}
  THEN NoPatientId
  ELSE user.id

\* publishQueueEvent's test of one subscriber
shouldReceive(s, event) ==
  \/ sub[s].patientId = NoPatientId
  \/ StartsWith(event.bookingId, sub[s].patientId)

\* the state of the booking handlers, which the hub does not touch
handlerVars == <<booking, txRow, locks, nextId, pc, req, body, dailySerial,
                 attempts, row, response, requests, deletes, maxAssigned,
                 lowDeleted, firstCalls, firstSerials>>

\* the registry with handle s added under key
Registered(key, s) ==
  [k \in DOMAIN subscribers \cup {key} |->
     IF k = key
     THEN (IF key \in DOMAIN subscribers THEN subscribers[key] ELSE {})
            \cup {s}
     ELSE subscribers[k]]

\* GET /sse/queue/:doctorId: createSseStream registers the subscriber and
\* enqueues the connected frame; the route returns the stream and starts no
\* heartbeat for it
Subscribe(s) ==
  /\ sub[s] = NoSub
  /\ \A t \in SubIds : t < s => sub[t] # NoSub
  /\ \E doctorId \in Doctors, date \in HubDates, user \in AuthUsers :
       /\ sub' = [sub EXCEPT ![s] =
                    [doctorId |-> doctorId, date |-> date,
                     patientId |-> patientIdFilter(user),
                     transport |-> "open", openedAt |-> now]]
       /\ subscribers' = Registered(channelKey(doctorId, date), s)
       /\ frames' = [frames EXCEPT ![s] =
                       <<Frame("connected",
                               [doctorId |-> doctorId, date |-> date])>>]
  /\ published' = <<>>
  /\ UNCHANGED <<ticks, handlerVars, storeVars, limiterVars>>

\* a stream that was cancelled: its Subscriber object is unreachable and its
\* queue has been reset
Cancelled == [transport |-> "cancelled"]

\* cancel() keeping the key of a channel that has become empty
CancelKeepsKey(s) ==
  /\ sub[s].transport = "open"
  /\ LET key == channelKey(sub[s].doctorId, sub[s].date) IN
       subscribers' = [subscribers EXCEPT ![key] = @ \ {s}]
  /\ sub' = [sub EXCEPT ![s] = Cancelled]
  /\ frames' = [frames EXCEPT ![s] = <<>>]
  /\ published' = <<>>
  /\ UNCHANGED <<ticks, handlerVars, storeVars, limiterVars>>

\* the client disconnects: the runtime cancels the stream and cancel()
\* removes the subscriber, and the key when its set is empty
Cancel(s) ==
  /\ sub[s].transport = "open"
  /\ LET key == channelKey(sub[s].doctorId, sub[s].date)
         rest == subscribers[key] \ {s}
     IN subscribers' =
          IF rest = {}
          THEN [k \in DOMAIN subscribers \ {key} |-> subscribers[k]]
          ELSE [subscribers EXCEPT ![key] = rest]
  /\ sub' = [sub EXCEPT ![s] = Cancelled]
  /\ frames' = [frames EXCEPT ![s] = <<>>]
  /\ published' = <<>>
  /\ UNCHANGED <<ticks, handlerVars, storeVars, limiterVars>>

\* the stream of s is closed or errored without cancel() having run: its
\* queue is reset and from now on controller.enqueue throws; the Subscriber
\* object stays in the registry
TransportClose(s) ==
  /\ sub[s].transport = "open"
  /\ sub' = [sub EXCEPT ![s] =
               [doctorId |-> sub[s].doctorId, date |-> sub[s].date,
                patientId |-> sub[s].patientId, transport |-> "closed"]]
  /\ frames' = [frames EXCEPT ![s] = <<>>]
  /\ published' = <<>>
  /\ UNCHANGED <<subscribers, ticks, handlerVars, storeVars, limiterVars>>

\* the subscribers publishQueueEvent tries to send the event to
Receivers(subs, event) == {s \in subs : shouldReceive(s, event)}

\* the subscribers whose sendEvent threw
deadSubs(subs, event) ==
  {s \in Receivers(subs, event) : sub[s].transport = "closed"}

\* publishQueueEvent(event), called by a booking handler
Publish(event) ==
  /\ \A s \in SubIds : Len(frames[s]) < MaxFrames
  /\ published' = <<event>>
  /\ LET key == channelKey(event.doctorId, event.date) IN
       IF key \notin DOMAIN subscribers \/ subscribers[key] = {}
       THEN UNCHANGED <<subscribers, frames>>
       ELSE LET subs == subscribers[key] IN
            /\ frames' =
                 [s \in SubIds |->
                    IF s \in Receivers(subs, event)
                         /\ sub[s].transport = "open"
                    THEN enqueue(frames[s], Frame(event.type, event))
                    ELSE frames[s]]
            /\ subscribers' =
                 [subscribers EXCEPT ![key] = subs \ deadSubs(subs, event)]
  /\ UNCHANGED <<sub, ticks, handlerVars, storeVars, limiterVars>>

\* one heartbeat interval of time passes
Tick ==
  /\ ticks < MaxTicks
  /\ ticks' = ticks + 1
  /\ published' = <<>>
  /\ UNCHANGED <<subscribers, sub, frames, handlerVars, storeVars, limiterVars>>

NextHub ==
  \/ \E s \in SubIds : Subscribe(s)
  \/ \E s \in SubIds : Cancel(s)
  \/ \E s \in SubIds : TransportClose(s)
  \/ \E event \in HubEvents : Publish(event)
  \/ Tick

SpecHub == Init /\ [][NextHub]_vars

\* ------------------------------------------- rate limit of booking creation
\* bookingLimiter = rateLimit({ windowMs: 60_000, max: 20 })
windowMs == 60000
max == 20
\* advances of the clock in one behaviour
MaxClockSteps == 3
\* the clock advances by half a window, so that a request can arrive
\* inside a window, exactly at resetAt, and after it
ClockStep == windowMs \div 2

\* the values of the two headers the key is taken from
HeaderValues == {Absent, "10.0.0.1"}
RequestHeaders ==
  [cfConnectingIp : HeaderValues, xForwardedFor : HeaderValues]

\* no keyFn is configured:
\* header("cf-connecting-ip") ?? header("x-forwarded-for") ?? "unknown"
limiterKey(headers) ==
  IF headers.cfConnectingIp # Absent THEN headers.cfConnectingIp
  ELSE IF headers.xForwardedFor # Absent THEN headers.xForwardedFor
  ELSE "unknown"

BucketEntry(count, resetAt) == [count |-> count, resetAt |-> resetAt]

\* if (entry && now > entry.resetAt) store.delete(key)
removeExpired(key) ==
  IF key \in DOMAIN store /\ clock > store[key].resetAt
  THEN [k \in DOMAIN store \ {key} |-> store[k]]
  ELSE store

limitReachedAbove(current) == current.count > max

\* if (current.count >= max)
limitReached(current) == current.count >= max

\* the answer of the limiter: 429, or the call of next() (status 0: the
\* answer is left to validateBody and the create handler), with the header
\* X-RateLimit-Remaining
LimiterResponse(status, code, key, remaining) ==
  [remaining |-> remaining]
  @@ Response(status, code, [op |-> "limit", key |-> key])

\* one request to the flat route POST /bookings passes the middleware; it
\* has no await before next(), so it is one step
bookingLimiter(headers) ==
  LET key == limiterKey(headers)
      kept == removeExpired(key)
  IN /\ IF key \notin DOMAIN kept
        THEN /\ store' = kept @@ (key :> BucketEntry(1, clock + windowMs))
             /\ Out(<<>>, LimiterResponse(0, "next", key, max - 1))
        ELSE IF limitReached(kept[key])
        THEN /\ store' = kept
             /\ Out(<<>>, LimiterResponse(429, "Too many requests", key, 0))
        ELSE /\ store' = [kept EXCEPT ![key].count = @ + 1]
             /\ Out(<<>>, LimiterResponse(0, "next", key,
                                          max - (kept[key].count + 1)))
     /\ clock' = clock
     /\ UNCHANGED <<booking, txRow, locks, nextId, pc, req, body, dailySerial,
                    attempts, row, requests, deletes, maxAssigned, lowDeleted,
                    firstCalls, firstSerials, storeVars, hubVars>>

\* time passes
ClockAdvance ==
  /\ clock < MaxClockSteps * ClockStep
  /\ clock' = clock + ClockStep
  /\ UNCHANGED <<store, bookingVars, storeVars, hubVars>>

NextLimiter ==
  \/ \E headers \in RequestHeaders : bookingLimiter(headers)
  \/ ClockAdvance

SpecLimiter == Init /\ [][NextLimiter]_vars

\* ------------------------------------------------------------------------
\*                               Claims
\* ------------------------------------------------------------------------

\* slot p holds an open transaction that has read the maximum serial
ReadDone(p) == pc[p] \in {"insert", "commit"}

KeyOf(p) == <<req[p].doctorId, body[p].serialDate>>

\* a create that began before any commit on key k is still in flight
FirstInFlight(k) ==
  \E p \in Procs : /\ req[p].op = "create"
                   /\ req[p].first
                   /\ KeyOf(p) = k

\* C1: in every reachable state no two committed booking rows share the
\* triple (doctorId, serialDate, dailySerial).
C1_UniqueSerial ==
  \A a \in booking : \A b \in booking :
    (/\ a.doctorId = b.doctorId
     /\ a.serialDate = b.serialDate
     /\ a.dailySerial = b.dailySerial) => a = b

\* two bookings of one doctor and date are stored after a delete was served
C1_Witness ==
  /\ deletes > 0
  /\ \E a \in booking : \E b \in booking :
       /\ a # b
       /\ a.doctorId = b.doctorId
       /\ a.serialDate = b.serialDate

\* C2: when N createBooking calls for one (doctorId, serialDate) run
\* concurrently against a day without bookings, all of them succeed and the
\* serials they are assigned are exactly 1..N.
C2_ConcurrentCreates ==
  \A k \in Keys :
    (deletes = 0 /\ ~FirstInFlight(k)) => firstSerials[k] = 1..firstCalls[k]

\* C3: of two concurrent createBooking transactions on one (doctorId,
\* serialDate) the second does not complete its read of the maximum serial
\* before the first has committed or rolled back, and the serial it computes
\* lies above every committed serial of the day.
C3_ReadSerialized ==
  /\ \A p \in Procs : \A q \in Procs :
       (p # q /\ ReadDone(p) /\ ReadDone(q)) => KeyOf(p) # KeyOf(q)
  /\ \A p \in Procs :
       pc[p] = "insert" =>
         \A b \in DayRows(req[p].doctorId, body[p].serialDate) :
           b.dailySerial < dailySerial[p]

\* C4: serials of one (doctorId, serialDate) are strictly increasing in
\* commit order: a committing create carries a serial above every serial
\* committed before it for that key.
C4_CommitOrder ==
  [][\A p \in Procs :
       (pc[p] = "commit" /\ pc'[p] = "publish") =>
         txRow[p].dailySerial > maxAssigned[KeyOf(p)]]_vars

\* C5: once a booking below the maximum of its day was deleted, every create
\* that starts afterwards for that day is assigned a serial above every
\* serial assigned before.
C5_NoReuseAfterLowDelete ==
  [][\A p \in Procs :
       (pc[p] = "commit" /\ pc'[p] = "publish" /\ req[p].afterLowDelete) =>
         txRow[p].dailySerial > maxAssigned[KeyOf(p)]]_vars

\* C6: createBooking reports an error only after it has run the
\* allocate-and-insert step a second time.
C6_RetryOnce ==
  (response.status = 500 /\ response.to.op = "create")
    => response.to.attempts = 2

\* the transition table of the booking state machine
Edges ==
  {<<"pending", "confirmed">>, <<"pending", "cancelled">>,
   <<"confirmed", "completed">>, <<"confirmed", "cancelled">>,
   <<"confirmed", "no_show">>}

\* response r answers a PATCH that carried a status for a stored booking
StatusPatch(r) ==
  /\ r.status # 0
  /\ r.to.op = "update"
  /\ r.to.bookingStatus # Absent
  /\ r.to.current # Absent

\* C7: assertValidTransition(S, V) succeeds exactly for the five pairs of
\* the transition table; every other pair fails with INVALID_TRANSITION.
C7_TransitionTable ==
  /\ \A p \in Procs :
       (pc[p] = "write" /\ body[p].bookingStatus # Absent) =>
         <<req[p].current, body[p].bookingStatus>> \in Edges
  /\ StatusPatch(response) =>
       (response.code = "INVALID_TRANSITION"
          <=> <<response.to.current, response.to.bookingStatus>> \notin Edges)

\* an update was refused for a transition out of a terminal status and for a
\* self-transition
C7_Witness ==
  /\ StatusPatch(response)
  /\ response.code = "INVALID_TRANSITION"
  /\ response.to.current \in Terminal
  /\ response.to.current = response.to.bookingStatus

\* C8: every change of a stored bookingStatus is an edge of the transition
\* table applied to the status stored at the moment of the write, so a
\* terminal status never changes.
C8_StoredTransitions ==
  [][\A a \in booking : \A b \in booking' :
       (a.id = b.id /\ a.bookingStatus # b.bookingStatus) =>
         (/\ a.bookingStatus \notin Terminal
          /\ <<a.bookingStatus, b.bookingStatus>> \in Edges)]_vars

\* C9: a booking row is pending when createBooking commits it, no update
\* turns a stored status into pending, and a patch with bookingStatus =
\* pending is rejected.
C9_PendingOnlyAtCreation ==
  /\ [][\A b \in booking' \ booking :
          (\A a \in booking : a.id # b.id) => b.bookingStatus = "pending"]_vars
  /\ [][\A a \in booking : \A b \in booking' :
          (a.id = b.id /\ b.bookingStatus = "pending")
            => a.bookingStatus = "pending"]_vars
  /\ [](\A p \in Procs :
          pc[p] = "write" => body[p].bookingStatus # "pending")
  /\ []((/\ response.status # 0
         /\ response.to.op = "update"
         /\ response.to.bookingStatus = "pending")
        => response.status \in {404, 409})

\* a patch to pending was refused for a stored booking that createBooking
\* left pending and an earlier update moved to another status
C9_Witness ==
  /\ StatusPatch(response)
  /\ response.to.bookingStatus = "pending"
  /\ response.code = "INVALID_TRANSITION"
  /\ \E b \in booking : b.id = response.to.id /\ b.bookingStatus # "pending"

\* C10 as stated: a patch to cancelled without a non-empty cancelNote, sent
\* for a stored booking, is rejected as a validation error.
C10_Original ==
  (/\ StatusPatch(response)
   /\ response.to.bookingStatus = "cancelled"
   /\ response.to.cancelNote \in {Absent, ""})
  => (response.status = 400 /\ response.code = "CANCEL_NOTE_REQUIRED")

\* C10 amended: a patch to cancelled without a non-empty cancelNote is always
\* rejected and changes no booking: with not-found when the booking is not
\* stored, with INVALID_TRANSITION when its status does not allow cancelled,
\* and otherwise with the validation error CANCEL_NOTE_REQUIRED.  A write
\* for a patch to cancelled carries a non-empty note; when the booking is
\* still stored it becomes cancelled and exactly one booking_cancelled event
\* is published on its (doctorId, serialDate), else the call answers 404.
C10_CancelNote ==
  /\ []((/\ response.status # 0
         /\ response.to.op = "update"
         /\ response.to.bookingStatus = "cancelled"
         /\ response.to.cancelNote \in {Absent, ""})
        => /\ published = <<>>
           /\ <<response.status, response.code>> =
                IF response.to.current = Absent THEN <<404, Absent>>
                ELSE IF response.to.current \in {"pending", "confirmed"}
                THEN <<400, "CANCEL_NOTE_REQUIRED">>
                ELSE <<409, "INVALID_TRANSITION">>)
  /\ [][(/\ response'.status \in {400, 404, 409}
         /\ response'.to.op = "update")
        => booking' = booking]_vars
  /\ [][\A p \in Procs :
          (/\ pc[p] = "write"
           /\ pc'[p] = "idle"
           /\ body[p].bookingStatus = "cancelled")
          => /\ body[p].cancelNote \notin {Absent, ""}
             /\ IF \E a \in booking : a.id = req[p].id
                THEN /\ response'.status = 200
                     /\ \E b \in booking' :
                          /\ b.id = req[p].id
                          /\ b.bookingStatus = "cancelled"
                          /\ b.cancelNote = body[p].cancelNote
                          /\ Len(published') = 1
                          /\ published'[1].type = "booking_cancelled"
                          /\ published'[1].bookingId = b.id
                          /\ published'[1].doctorId = b.doctorId
                          /\ published'[1].date = b.serialDate
                ELSE /\ response'.status = 404
                     /\ published' = <<>>
                     /\ booking' = booking]_vars

\* a cancellation with a note was written and its event published
C10_Witness ==
  /\ response.status = 200
  /\ response.to.op = "update"
  /\ response.to.bookingStatus = "cancelled"
  /\ response.to.cancelNote = "patient request"
  /\ Len(published) = 1
  /\ published[1].type = "booking_cancelled"
  /\ \E b \in booking : b.id = response.to.id /\ b.bookingStatus = "cancelled"

\* the row with this id was inserted and its transaction has committed
Committed(id) ==
  /\ id < nextId
  /\ \A q \in Procs : txRow[q] = NoRow \/ txRow[q].id # id

\* C13: a booking_created event is published only by a create whose
\* transaction has committed and has ended (no uncommitted row, no lock held
\* by it), no step inside a transaction publishes, and a create whose
\* transaction fails publishes nothing.
C13_PublishAfterCommit ==
  /\ [][\A i \in 1..Len(published') :
          published'[i].type = "booking_created" =>
            \E p \in Procs :
              /\ pc[p] = "publish" /\ pc'[p] = "idle"
              /\ txRow[p] = NoRow /\ locks[p] = {}
              /\ row[p].id = published'[i].bookingId
              /\ Committed(row[p].id)]_vars
  /\ [][\A p \in Procs :
          (pc[p] \in {"allocate", "insert", "commit"} /\ pc'[p] # pc[p])
            => published' = <<>>]_vars
  /\ []((response.status = 500 /\ response.to.op = "create")
          => published = <<>>)

\* a create was answered 201 and its booking_created event is published
C13_Witness ==
  /\ response.status = 201
  /\ response.to.op = "create"
  /\ Len(published) = 1
  /\ published[1].type = "booking_created"
  /\ Committed(published[1].bookingId)

\* C14: every updateBooking answered 200 publishes exactly one event, for
\* the written row and on its (doctorId, serialDate), of type
\* booking_cancelled when the row's status after the write is cancelled and
\* booking_updated otherwise.
C14_UpdateEvent ==
  [][(response'.status = 200 /\ response'.to.op = "update") =>
       /\ Len(published') = 1
       /\ \E b \in booking' :
            /\ b.id = response'.to.id
            /\ b = Patched(RowById(b.id), response'.to)
            /\ published'[1].bookingId = b.id
            /\ published'[1].doctorId = b.doctorId
            /\ published'[1].date = b.serialDate
            /\ published'[1].type =
                 IF b.bookingStatus = "cancelled"
                 THEN "booking_cancelled" ELSE "booking_updated"]_vars

\* an update to confirmed was answered 200 and announced as booking_updated
C14_Witness ==
  /\ response.status = 200
  /\ response.to.op = "update"
  /\ response.to.bookingStatus = "confirmed"
  /\ Len(published) = 1
  /\ published[1].type = "booking_updated"
  /\ published[1].bookingId = response.to.id

\* C15: deleteBooking of a stored booking removes exactly that row whatever
\* its status, answers 204 and publishes exactly one booking_cancelled event
\* on the row's (doctorId, serialDate); deleteBooking of an id no booking has
\* answers 404, removes nothing and publishes nothing.
C15_DeleteEvent ==
  [][deletes' = deletes + 1 =>
       LET id == response'.to.id IN
       /\ response'.to.op = "delete"
       /\ IF \E b \in booking : b.id = id
          THEN /\ response'.status = 204
               /\ booking' = booking \ {RowById(id)}
               /\ Len(published') = 1
               /\ published'[1].type = "booking_cancelled"
               /\ published'[1].bookingId = id
               /\ published'[1].doctorId = RowById(id).doctorId
               /\ published'[1].date = RowById(id).serialDate
          ELSE /\ response'.status = 404
               /\ booking' = booking
               /\ published' = <<>>]_vars

\* a delete was answered 204 after the booking had been moved through two
\* updates, and its booking_cancelled event is published
C15_Witness ==
  /\ response.status = 204
  /\ response.to.op = "delete"
  /\ requests = 3
  /\ \A b \in booking : b.id # response.to.id
  /\ Len(published) = 1
  /\ published[1].type = "booking_cancelled"
  /\ published[1].bookingId = response.to.id

\* minute of the day of a scheduledAt
MinuteOfDay(scheduledAt) ==
  getUTCHours(scheduledAt) * 60 + getUTCMinutes(scheduledAt)

\* minute m lies in the window [startTime, endTime) of rule r
InWindow(r, m) ==
  timeToMinutes(r.startTime) <= m /\ m < timeToMinutes(r.endTime)

\* minute m lies in a break [start, end) of rule r
InBreak(r, m) ==
  \E i \in DOMAIN r.breaks : r.breaks[i].start <= m /\ m < r.breaks[i].end

\* the active rules of the stored set for a doctor, clinic and the Monday
\* all requests of the model are for
ActiveRules(doctorId, clinicId) ==
  {r \in availabilityRules :
     r.doctorId = doctorId /\ r.clinicId = clinicId /\ r.isActive
       /\ r.dayOfWeek = 1}

\* a step in which createBooking rejects a request at admission
Rejects ==
  /\ requests' = requests + 1
  /\ response'.status \in {404, 409}
  /\ response'.to.op = "create"

\* a step in which slot p admits a createBooking request
Admits(p) ==
  /\ requests' = requests + 1
  /\ pc[p] = "idle"
  /\ pc'[p] = "allocate"

\* C11: a rejected createBooking carries the error of the earliest violated
\* precondition in the order doctor exists, doctor assigned to the clinic,
\* active rule for the date, scheduledAt inside the hours, scheduledAt
\* outside the breaks (the last two on the rule the lookup returned); the
\* rejection starts no transaction, inserts no row and publishes nothing;
\* and a request is admitted only when no precondition is violated.
C11_AdmissionOrder ==
  /\ [][Rejects =>
          LET t == response'.to
              err == <<response'.status, response'.code>>
              R == ActiveRules(t.doctorId, t.clinicId)
          IN /\ IF t.doctorId \notin doctor THEN err = <<404, Absent>>
                ELSE IF <<t.doctorId, t.clinicId>> \notin doctorClinic
                THEN err = <<409, "DOCTOR_NOT_IN_CLINIC">>
                ELSE IF R = {} THEN err = <<409, "NO_AVAILABILITY">>
                ELSE /\ t.scheduledAt # Absent
                     /\ \E r \in R :
                          IF ~InWindow(r, MinuteOfDay(t.scheduledAt))
                          THEN err = <<409, "OUTSIDE_HOURS">>
                          ELSE /\ InBreak(r, MinuteOfDay(t.scheduledAt))
                               /\ err = <<409, "DURING_BREAK">>
             /\ published' = <<>>
             /\ UNCHANGED <<booking, txRow, locks, nextId, pc, req, body>>]_vars
  /\ [][\A p \in Procs : Admits(p) =>
          /\ req'[p].doctorId \in doctor
          /\ <<req'[p].doctorId, body'[p].clinicId>> \in doctorClinic
          /\ \E r \in ActiveRules(req'[p].doctorId, body'[p].clinicId) :
               body'[p].scheduledAt # Absent =>
                 /\ InWindow(r, MinuteOfDay(body'[p].scheduledAt))
                 /\ ~InBreak(r, MinuteOfDay(body'[p].scheduledAt))]_vars

\* a request at 08:00, before the hours of the rule and inside one of its
\* breaks, was rejected with OUTSIDE_HOURS
C11_Witness ==
  /\ response.status = 409
  /\ response.code = "OUTSIDE_HOURS"
  /\ response.to.op = "create"
  /\ response.to.scheduledAt = "2025-06-02T08:00:00Z"
  /\ \A r \in ActiveRules(response.to.doctorId, response.to.clinicId) :
       InBreak(r, 480) /\ ~InWindow(r, 480)
  /\ ActiveRules(response.to.doctorId, response.to.clinicId) # {}

\* C12: for a request whose doctor is assigned to the clinic and every
\* active rule r of the date's day of week, the request with scheduledAt
\* minute m is accepted if and only if m is in r's window and in no break of
\* r, fails with OUTSIDE_HOURS exactly when m is outside the window and with
\* DURING_BREAK exactly when m is in the window and in a break; it fails with
\* NO_AVAILABILITY exactly when there is no such rule.
C12_WindowAndBreaks ==
  /\ [][(Rejects /\ <<response'.to.doctorId, response'.to.clinicId>>
                         \in doctorClinic) =>
            LET t == response'.to
                R == ActiveRules(t.doctorId, t.clinicId) IN
            /\ response'.code = "NO_AVAILABILITY" <=> R = {}
            /\ \A r \in R :
                 /\ t.scheduledAt # Absent
                 /\ response'.code = "OUTSIDE_HOURS"
                      <=> ~InWindow(r, MinuteOfDay(t.scheduledAt))
                 /\ response'.code = "DURING_BREAK"
                      <=> /\ InWindow(r, MinuteOfDay(t.scheduledAt))
                          /\ InBreak(r, MinuteOfDay(t.scheduledAt))]_vars
  /\ [][\A p \in Procs : Admits(p) =>
          LET R == ActiveRules(req'[p].doctorId, body'[p].clinicId) IN
          /\ R # {}
          /\ \A r \in R :
               body'[p].scheduledAt # Absent =>
                 /\ InWindow(r, MinuteOfDay(body'[p].scheduledAt))
                 /\ ~InBreak(r, MinuteOfDay(body'[p].scheduledAt))]_vars

\* a step in which publishQueueEvent is called
PublishStep == published' # <<>>

\* handle s is a subscriber created for the channel of event e
OnChannel(s, e) ==
  /\ sub[s].transport \in {"open", "closed"}
  /\ channelKey(sub[s].doctorId, sub[s].date) = channelKey(e.doctorId, e.date)

\* the booking of event e belongs to the patient subscriber s filters for
Owns(s, e) ==
  \E b \in HubBookings : b.id = e.bookingId /\ b.patientId = sub[s].patientId

\* event e is enqueued on the stream of s in this step
Delivered(s, e) == frames'[s] = Append(frames[s], Frame(e.type, e))

\* C16: the first frame of every open stream is the connected acknowledgment,
\* and every event published on the channel of an open stream whose
\* subscriber is entitled to it (staff, or the patient the booking belongs
\* to) is enqueued on the stream by the publish.
C16_ConnectedThenEvents ==
  /\ [](\A s \in SubIds : sub[s].transport = "open" =>
          Len(frames[s]) >= 1 /\ frames[s][1].event = "connected")
  /\ [][PublishStep =>
          LET e == published'[1] IN
          \A s \in SubIds :
            (/\ OnChannel(s, e)
             /\ sub[s].transport = "open"
             /\ (sub[s].patientId = NoPatientId \/ Owns(s, e)))
              => Delivered(s, e)]_vars

\* C17: on every stream that has been open for a heartbeat interval a ping
\* frame has been enqueued.
C17_Heartbeat ==
  \A s \in SubIds :
    (sub[s].transport = "open" /\ now - sub[s].openedAt >= intervalMs)
      => \E i \in DOMAIN frames[s] : frames[s][i].event = "ping"

\* C18: after a publish on a channel, no subscriber of the channel whose
\* transport was closed before the publish is in the registry, with or
\* without a patient filter, matching the event or not.
C18_PrunedOnPublish ==
  [][PublishStep =>
       LET e == published'[1]
           key == channelKey(e.doctorId, e.date) IN
       \A s \in SubIds :
         (OnChannel(s, e) /\ sub[s].transport = "closed")
           => (key \notin DOMAIN subscribers' \/ s \notin subscribers'[key])]_vars

\* C19: when the stream of subscriber s is cancelled, the set of its channel
\* loses exactly s, the key is removed when the set has become empty, every
\* other channel keeps its set, and no other subscriber or stream changes.
C19_CancelRemovesHandle ==
  [][\A s \in SubIds :
       (sub[s].transport = "open" /\ sub'[s].transport = "cancelled") =>
         LET key == channelKey(sub[s].doctorId, sub[s].date) IN
         /\ s \in subscribers[key]
         /\ DOMAIN subscribers' \subseteq DOMAIN subscribers
         /\ \A k \in DOMAIN subscribers \ {key} :
              k \in DOMAIN subscribers' /\ subscribers'[k] = subscribers[k]
         /\ IF subscribers[key] = {s}
            THEN key \notin DOMAIN subscribers'
            ELSE /\ key \in DOMAIN subscribers'
                 /\ subscribers'[key] = subscribers[key] \ {s}
         /\ \A t \in SubIds \ {s} :
              sub'[t] = sub[t] /\ frames'[t] = frames[t]]_vars

\* one stream was cancelled and the registry holds nothing of it, while
\* the other stream is open and is the only subscriber of the only key
C19_Witness ==
  \E s \in SubIds, t \in SubIds :
    /\ sub[s] = Cancelled
    /\ sub[t].transport = "open"
    /\ DOMAIN subscribers = {channelKey(sub[t].doctorId, sub[t].date)}
    /\ subscribers[channelKey(sub[t].doctorId, sub[t].date)] = {t}

\* C20: a publish enqueues the event on the open stream of a subscriber
\* with a patient filter if and only if the booking of the event belongs to
\* that patient, and on every open stream of the channel without a filter.
C20_PatientFilter ==
  [][PublishStep =>
       LET e == published'[1] IN
       \A s \in SubIds :
         (OnChannel(s, e) /\ sub[s].transport = "open") =>
           IF sub[s].patientId = NoPatientId
           THEN Delivered(s, e)
           ELSE Delivered(s, e) <=> Owns(s, e)]_vars

\* C21: the frames of a stream that stays open change only by a publish
\* appending the event it publishes after all frames enqueued before, so
\* every stream holds the events it received in the order of their publishes.
C21_PublishOrder ==
  [][\A s \in SubIds :
       (sub[s].transport = "open" /\ sub'[s].transport = "open") =>
         \/ frames'[s] = frames[s]
         \/ /\ PublishStep
            /\ frames'[s] =
                 Append(frames[s], Frame(published'[1].type, published'[1]))]_vars

\* a stream has received two different events of its channel
C21_Witness ==
  \E s \in SubIds :
    /\ sub[s].transport = "open"
    /\ Len(frames[s]) = 3
    /\ frames[s][2] # frames[s][3]
    /\ published = <<frames[s][3].data>>

\* handle s is in a set of the registry
InRegistry(s) == \E k \in DOMAIN subscribers : s \in subscribers[k]

\* C22: a booking event is enqueued on a stream only by a publish of an
\* event with the doctorId and the date of the stream's subscriber, at a
\* moment when the subscriber is registered; opening a stream enqueues the
\* connected frame alone, and nothing is enqueued after the cancel.
C22_ChannelIsolation ==
  [][\A s \in SubIds :
       frames'[s] # frames[s] =>
         \/ /\ sub[s] = NoSub
            /\ Len(frames'[s]) = 1 /\ frames'[s][1].event = "connected"
         \/ sub[s].transport = "open" /\ frames'[s] = <<>>
         \/ /\ PublishStep
            /\ sub[s].transport = "open"
            /\ InRegistry(s)
            /\ sub[s].doctorId = published'[1].doctorId
            /\ sub[s].date = published'[1].date
            /\ Delivered(s, published'[1])]_vars

\* an event of one date was delivered to the stream of that date while the
\* open stream of the other date, subscribed before the publish, got nothing
C22_Witness ==
  \E s \in SubIds, t \in SubIds :
    /\ sub[s].transport = "open" /\ sub[t].transport = "open"
    /\ sub[s].date # sub[t].date
    /\ published # <<>>
    /\ Len(frames[s]) = 2 /\ frames[s][2].data = published[1]
    /\ Len(frames[t]) = 1

\* the latest step answered a slots request
SlotsAnswer == "slots" \in DOMAIN response

\* C23: no returned slot starts in a break of the rule the slots were
\* computed from, and the k-th returned slot has serial k; for the rule
\* 09:00-10:00 with break [570, 600) and duration 15 the slots are
\* 09:00-09:15 and 09:15-09:30 with serials 1 and 2.
C23_BreaksAndSerials ==
  SlotsAnswer =>
    LET S == response.slots
        r == response.rule
    IN /\ r = NoRow => S = <<>>
       /\ \A k \in DOMAIN S :
            /\ S[k].serial = k
            /\ ~InBreak(r, timeToMinutes(S[k].start))
       /\ (/\ r # NoRow
           /\ r.startTime = Time(9, 0) /\ r.endTime = Time(10, 0)
           /\ r.breaks = <<[start |-> 570, end |-> 600]>>
           /\ response.to.slotDuration = 15)
            => /\ Len(S) = 2
               /\ S[1].start = Time(9, 0) /\ S[1].end = Time(9, 15)
               /\ S[2].start = Time(9, 15) /\ S[2].end = Time(9, 30)

\* the slots of the rule 09:00-10:00 with break [570, 600) at duration 15
C23_Witness ==
  /\ SlotsAnswer
  /\ response.rule # NoRow
  /\ response.rule.startTime = Time(9, 0)
  /\ response.rule.endTime = Time(10, 0)
  /\ response.rule.breaks = <<[start |-> 570, end |-> 600]>>
  /\ response.to.slotDuration = 15
  /\ Len(response.slots) = 2

\* the bookings stored for the doctor, clinic and date of a request
BookingsOf(t) ==
  {b \in booking : /\ b.doctorId = t.doctorId
                   /\ b.clinicId = t.clinicId
                   /\ b.serialDate = t.date}

\* C24: computed from an active rule without breaks, for a date without
\* bookings and a duration d dividing the window, the slots are
\* (endTime - startTime) / d in number, all available, with serials 1..n,
\* the first starting at startTime and each starting where the one before
\* ends; 12 slots for 09:00-12:00 and d = 15.
C24_FullDay ==
  (/\ SlotsAnswer
   /\ response.rule # NoRow
   /\ response.rule.breaks = <<>>
   /\ BookingsOf(response.to) = {}) =>
    LET S == response.slots
        r == response.rule
        d == response.to.slotDuration
        window == timeToMinutes(r.endTime) - timeToMinutes(r.startTime)
    IN /\ r.isActive /\ r.dayOfWeek = getDay(response.to.date)
       /\ window % d = 0 =>
            /\ Len(S) = window \div d
            /\ \A k \in DOMAIN S : S[k].available /\ S[k].serial = k
            /\ S # <<>> => S[1].start = r.startTime
            /\ \A k \in DOMAIN S : k > 1 => S[k].start = S[k - 1].end
       /\ (r.startTime = Time(9, 0) /\ r.endTime = Time(12, 0) /\ d = 15)
            => Len(S) = 12 /\ S[12].serial = 12

\* the twelve slots of the Monday rule 09:00-12:00 on a day without bookings
C24_Witness ==
  /\ SlotsAnswer
  /\ response.rule = MondayRule
  /\ response.to.slotDuration = 15
  /\ BookingsOf(response.to) = {}
  /\ Len(response.slots) = 12

\* C25: a returned slot is unavailable if and only if its serial is the
\* dailySerial of a stored booking of the doctor, clinic and date, in
\* whatever status.
C25_BookedSerials ==
  SlotsAnswer =>
    \A k \in DOMAIN response.slots :
      ~response.slots[k].available
        <=> \E b \in BookingsOf(response.to) :
              b.dailySerial = response.slots[k].serial

\* slot 2 is taken by a cancelled booking, and slot 3 is free although a
\* booking of the same day at the other clinic has serial 3
C25_Witness ==
  /\ SlotsAnswer
  /\ Len(response.slots) >= 3
  /\ ~response.slots[2].available
  /\ response.slots[3].available
  /\ \E b \in BookingsOf(response.to) :
       b.dailySerial = 2 /\ b.bookingStatus = "cancelled"
  /\ \E b \in booking :
       /\ b.serialDate = response.to.date /\ b.dailySerial = 3
       /\ b.clinicId # response.to.clinicId

\* the date i days after fromDate can be found without an available slot
\* of 15 minutes
NoneAvailable(t, i) ==
  \E rule \in resolveRule(t.doctorId, t.clinicId, addDays(t.fromDate, i)) :
    LET S == getSlotsForDate(rule, t.doctorId, t.clinicId,
                             addDays(t.fromDate, i), 15)
    IN \A k \in DOMAIN S : ~S[k].available

\* the date i days after fromDate can be found with an available slot
SomeAvailable(t, i) ==
  \E rule \in resolveRule(t.doctorId, t.clinicId, addDays(t.fromDate, i)) :
    LET S == getSlotsForDate(rule, t.doctorId, t.clinicId,
                             addDays(t.fromDate, i), 15)
    IN \E k \in DOMAIN S : S[k].available

\* C26: the loop of getNextAvailableDate examines the dates fromDate,
\* fromDate + 1, ... one per iteration and at most maxDays of them: every
\* iteration returns or moves to the next date, the returned date is the
\* first examined date with an available slot, and null is returned exactly
\* after maxDays dates without one.
C26_NextAvailableDate ==
  /\ [](\A p \in Procs : pc[p] = "nextDate" => body[p].i < req[p].maxDays)
  /\ [][\A p \in Procs : pc[p] = "nextDate" =>
          \/ UNCHANGED <<pc[p], req[p], body[p]>>
          \/ /\ pc'[p] = "nextDate" /\ req'[p] = req[p]
             /\ body'[p].i = body[p].i + 1
             /\ NoneAvailable(req[p], body[p].i)
          \/ /\ pc'[p] = "idle"
             /\ response'.to = req[p]
             /\ response'.examined = body[p].i + 1]_vars
  /\ [](("examined" \in DOMAIN response) =>
          LET t == response.to
              n == response.examined
          IN /\ n \in 1..t.maxDays
             /\ \A i \in 0..(n - 2) : NoneAvailable(t, i)
             /\ IF response.nextAvailableDate = Null
                THEN n = t.maxDays /\ NoneAvailable(t, n - 1)
                ELSE /\ response.nextAvailableDate = addDays(t.fromDate, n - 1)
                     /\ SomeAvailable(t, n - 1))

\* the third date was returned after two dates without an available slot
C26_Witness ==
  /\ "examined" \in DOMAIN response
  /\ response.to.fromDate = "2025-06-02"
  /\ response.to.maxDays = 3
  /\ response.examined = 3
  /\ response.nextAvailableDate = "2025-06-04"
  /\ ~SomeAvailable(response.to, 0)
  /\ ~SomeAvailable(response.to, 1)

\* C27: for every doctor, clinic and date the rule lookup has one possible
\* result in the stored set of rules, so two resolutions without a write in
\* between return the same rule, or both none.
C27_ResolveDeterministic ==
  \A doctorId \in AdmissionDoctors, clinicId \in AdmissionClinics,
     date \in Dates :
    \A r1 \in resolveRule(doctorId, clinicId, date),
       r2 \in resolveRule(doctorId, clinicId, date) : r1 = r2

\* C28: no two stored rules of one doctor, clinic and day of week are
\* active.
C28_OneActiveRule ==
  \A r1 \in availabilityRules, r2 \in availabilityRules :
    (/\ r1.isActive /\ r2.isActive
     /\ r1.doctorId = r2.doctorId
     /\ r1.clinicId = r2.clinicId
     /\ r1.dayOfWeek = r2.dayOfWeek) => r1 = r2

\* a step that answers a DELETE of an availability rule
RuleDeleteStep ==
  /\ requests' = requests + 1
  /\ response'.status \in {204, 404}
  /\ response'.to.op = "ruleDelete"

\* C29: a delete of a rule answered 204 leaves every row stored and changes
\* only isActive, to false, of the one rule with the ruleId and the doctorId
\* of the request; a delete that finds no such rule is answered 404 and
\* changes no rule; no delete changes a booking.
C29_SoftDelete ==
  [][RuleDeleteStep =>
       LET t == response'.to
           hit == {r \in availabilityRules :
                     r.id = t.id /\ r.doctorId = t.doctorId}
       IN /\ response'.status = 204 <=> hit # {}
          /\ availabilityRules' =
               (availabilityRules \ hit)
                 \cup {[r EXCEPT !.isActive = FALSE] : r \in hit}
          /\ Cardinality(hit) <= 1
          /\ Cardinality(availabilityRules') = Cardinality(availabilityRules)
          /\ UNCHANGED <<booking, txRow, doctor, doctorClinic>>]_vars

\* an active rule was deleted: its row is stored, inactive
C29_Witness ==
  /\ response.status = 204
  /\ response.to.op = "ruleDelete"
  /\ \E r \in availabilityRules :
       /\ r.id = response.to.id
       /\ r.doctorId = response.to.doctorId
       /\ ~r.isActive

\* the key of the request the limiter answered last
LimitedKey == response.to.key

\* the request the step answers arrives inside the window of its key
InsideWindow(k) == k \in DOMAIN store /\ clock <= store[k].resetAt

\* C30: a bucket counts the requests admitted since the first request of
\* its window and never exceeds max = 20, and resetAt is the time of that
\* first request + windowMs = 60 s.  A request that arrives up to resetAt
\* is admitted and counted while the count is below 20, and otherwise is
\* rejected with 429 and leaves the bucket as it is; the first request
\* after resetAt (or the first of its key) is admitted and starts a window
\* with count 1.  The buckets of the other keys are left alone.
C30_BookingLimiter ==
  /\ [](\A k \in DOMAIN store :
          /\ store[k].count \in 1..max
          /\ store[k].resetAt <= clock + windowMs)
  /\ [][clock' = clock =>
          LET k == LimitedKey' IN
          /\ \A j \in DOMAIN store \ {k} :
               j \in DOMAIN store' /\ store'[j] = store[j]
          /\ k \in DOMAIN store'
          /\ IF ~InsideWindow(k)
             THEN /\ store'[k] = BucketEntry(1, clock + windowMs)
                  /\ response'.status # 429
             ELSE IF store[k].count < max
             THEN /\ store'[k] = BucketEntry(store[k].count + 1,
                                             store[k].resetAt)
                  /\ response'.status # 429
             ELSE /\ store' = store
                  /\ response'.status = 429]_vars

\* the 21st request of a window, arriving exactly at resetAt, was rejected
C30_Witness ==
  /\ response.status = 429
  /\ store[LimitedKey].count = max
  /\ store[LimitedKey].resetAt = clock

\* the transaction of the create in slot p aborts in this step
Aborts(p) == pc[p] = "insert" /\ pc'[p] = "idle"

\* C31: when the transaction of a create aborts after allocateSerial has
\* computed a serial, afterwards no booking of the day has that serial, the
\* transaction holds no lock and no row, and the serial a create of the same
\* (doctorId, serialDate) computes next is the one the aborted call computed.
C31_AbortLeavesNoGap ==
  [][\A p \in Procs :
       Aborts(p) =>
         LET rows == {b \in booking' : /\ b.doctorId = req[p].doctorId
                                       /\ b.serialDate = body[p].serialDate}
         IN /\ \A b \in rows : b.dailySerial # dailySerial[p]
            /\ locks'[p] = {}
            /\ txRow'[p] = NoRow
            /\ (IF rows = {} THEN 1
                ELSE Max({b.dailySerial : b \in rows}) + 1) = dailySerial[p]]_vars

\* this step is the delete of booking b
Deletes(b) == response'.status = 204 /\ response'.to.id = b.id

\* C32: no step changes the dailySerial, the serialDate or the doctorId of
\* a stored booking, and a booking stays stored unless the step is the
\* delete of that booking: creates, updates and deletes of other bookings,
\* also of a booking with a lower serial on the same day, leave them alone.
C32_SerialOwned ==
  [][\A b \in booking :
       \/ \E c \in booking' : /\ c.id = b.id
                              /\ c.dailySerial = b.dailySerial
                              /\ c.serialDate = b.serialDate
                              /\ c.doctorId = b.doctorId
       \/ Deletes(b)]_vars

\* a booking that was updated to confirmed keeps a serial above 1 after the
\* booking below it on its day was deleted
C32_Witness ==
  \E b \in booking :
    /\ b.dailySerial > 1
    /\ b.bookingStatus = "confirmed"
    /\ <<b.doctorId, b.serialDate>> \in lowDeleted
    /\ DayRows(b.doctorId, b.serialDate) = {b}

\* the sendEvent of this publish throws for subscriber d: d is in the set of
\* the channel, passes the filter, and its transport is closed
SendFails(d, e) ==
  /\ OnChannel(d, e)
  /\ InRegistry(d)
  /\ sub[d].transport = "closed"
  /\ shouldReceive(d, e)

\* C33: a publish leaves the state of the booking handlers, and so the
\* response of the operation that called it, as it is; and when the send to
\* one subscriber fails on a closed transport, the same publish enqueues the
\* event on the stream of every other open subscriber of the channel that is
\* entitled to it (staff, or the patient the booking belongs to).
C33_FailureContained ==
  [][PublishStep =>
       LET e == published'[1] IN
       /\ UNCHANGED handlerVars
       /\ (\E d \in SubIds : SendFails(d, e)) =>
            \A s \in SubIds :
              (/\ OnChannel(s, e)
               /\ InRegistry(s)
               /\ sub[s].transport = "open"
               /\ (sub[s].patientId = NoPatientId \/ Owns(s, e)))
                => Delivered(s, e)]_vars

\* C34: no channel key of the registry maps to an empty set of subscribers.
C34_NoEmptyChannel ==
  \A k \in DOMAIN subscribers : subscribers[k] # {}

\* the step starts of the walk of a rule's window at duration d
StepStarts(r, d) ==
  {s \in timeToMinutes(r.startTime)..(timeToMinutes(r.endTime) - 1) :
     (s - timeToMinutes(r.startTime)) % d = 0}

\* the start minutes of the slots of the answer
EmittedStarts ==
  {timeToMinutes(response.slots[k].start) : k \in DOMAIN response.slots}

\* C35 as stated: the slots start at exactly the step starts before endTime
\* that are in no break.
C35_Original ==
  (SlotsAnswer /\ response.rule # NoRow) =>
    EmittedStarts =
      {s \in StepStarts(response.rule, response.to.slotDuration) :
         ~InBreak(response.rule, s)}

\* C35: the slots start at exactly the step starts in no break whose step
\* ends at endTime or before, in increasing order, each slot ending one
\* duration after its start: a last step that the window does not hold in
\* full is not emitted, and a slot starting before a break is emitted also
\* when it ends inside the break.
C35_SlotGrid ==
  (SlotsAnswer /\ response.rule # NoRow) =>
    LET S == response.slots
        r == response.rule
        d == response.to.slotDuration
    IN /\ EmittedStarts =
            {s \in StepStarts(r, d) :
               s + d <= timeToMinutes(r.endTime) /\ ~InBreak(r, s)}
       /\ \A k \in DOMAIN S :
            /\ timeToMinutes(S[k].end) = timeToMinutes(S[k].start) + d
            /\ k > 1 => timeToMinutes(S[k - 1].start) < timeToMinutes(S[k].start)

\* the window 09:00-09:20 at duration 15: the step at 09:15 is not emitted
C35_Witness ==
  /\ SlotsAnswer
  /\ response.rule # NoRow
  /\ response.rule.startTime = Time(9, 0)
  /\ response.rule.endTime = Time(9, 20)
  /\ response.to.slotDuration = 15
  /\ Len(response.slots) = 1
  /\ response.slots[1].end = Time(9, 15)

\* the step answers a PATCH with a rejection
UpdateRejected ==
  /\ response'.status \in {400, 404, 409}
  /\ response'.to.op = "update"

\* C36: a step that rejects an update, with 409 INVALID_TRANSITION, with 400
\* CANCEL_NOTE_REQUIRED or with 404, leaves the stored bookings and the rows
\* of open transactions as they are and publishes no event; and an update is
\* rejected with no other answer.
C36_RejectedUpdate ==
  /\ [][UpdateRejected =>
          /\ booking' = booking
          /\ txRow' = txRow
          /\ published' = <<>>
          /\ <<response'.status, response'.code>> \in
               {<<409, "INVALID_TRANSITION">>, <<400, "CANCEL_NOTE_REQUIRED">>,
                <<404, Absent>>}]_vars
  /\ []((response.status # 0 /\ response.to.op = "update")
          => response.status \in {200, 400, 404, 409})

\* a cancellation without note was refused for a confirmed booking, which
\* is stored as before
C36_Witness ==
  /\ response.status = 400
  /\ response.code = "CANCEL_NOTE_REQUIRED"
  /\ published = <<>>
  /\ \E b \in booking : /\ b.id = response.to.id
                        /\ b.bookingStatus = "confirmed"
                        /\ b.cancelNote = Null

\* C37: a booking that a step stores for (doctorId, serialDate) has a
\* dailySerial above every serial committed for that key before, so no
\* serial is assigned to two bookings of the key, whatever was deleted.
C37_NoSerialReuse ==
  [][\A b \in booking' :
       (\A a \in booking : a.id # b.id)
         => b.dailySerial > maxAssigned[<<b.doctorId, b.serialDate>>]]_vars

\* C38: a step that answers a PATCH of a booking stored in a terminal status
\* leaves that booking as it is and publishes no event.
C38_TerminalFrozen ==
  [][\A a \in booking :
       (/\ a.bookingStatus \in Terminal
        /\ response'.status # 0
        /\ response'.to.op = "update"
        /\ response'.to.id = a.id)
         => (a \in booking' /\ published' = <<>>)]_vars

\* the serials of the slots getSlotsForDate emits at the default duration
SlotSerials(doctorId, clinicId, date) ==
  UNION {{getSlotsForDate(rule, doctorId, clinicId, date, 15)[k].serial :
            k \in DOMAIN getSlotsForDate(rule, doctorId, clinicId, date, 15)} :
           rule \in resolveRule(doctorId, clinicId, date)}

\* C39: the dailySerial of a booking a create stores is the serial of a
\* slot of its doctor, clinic and date at the default slot duration, and a
\* slot an answer shows as available has a serial that no booking of the
\* doctor on that date holds, at whatever clinic.
C39_SerialsAreSlots ==
  /\ [][\A b \in booking' :
          (\A a \in booking : a.id # b.id)
            => b.dailySerial \in SlotSerials(b.doctorId, b.clinicId,
                                             b.serialDate)]_vars
  /\ [](SlotsAnswer =>
          \A k \in DOMAIN response.slots :
            response.slots[k].available =>
              ~\E b \in booking : /\ b.doctorId = response.to.doctorId
                                  /\ b.serialDate = response.to.date
                                  /\ b.dailySerial = response.slots[k].serial)

====
